---------------------------- MODULE Spec2Model ----------------------------
(***************************************************************************)
(* Metadata cache of ExifData_Seach-and-Move: the normalizer, the SQLite   *)
(* store (file_metadata table), the ingestion pipeline                     *)
(* (batch_update_metadata) and the search-and-move engine                  *)
(* (find_and_move_images / process_file).                                  *)
(*                                                                         *)
(* A text is a sequence of one-character strings.  Python's None is the    *)
(* one-element sequence None, whose element is no character.               *)
(***************************************************************************)
EXTENDS Integers, Sequences, FiniteSets, TLC

VARIABLES
    store,      \* file_metadata table: a set of rows
    now,        \* time.time(), advanced by every store operation
    fs,         \* filesystem: path -> file (raw metadata, mtime) or NoFile
    lastOp,     \* the last store operation: its arguments and what it met
    txn,        \* the transaction a connection has open, and what it has executed
    raw,        \* normalizer harness: the raw input text
    once,       \* normalizer harness: normalize_metadata(raw)
    twice,      \* normalizer harness: normalize_metadata(once)
    npc,        \* normalizer harness: position
    ipc,        \* batch_update_metadata: position of the main thread
    file_list,  \* batch_update_metadata: the files to ingest
    fut,        \* batch_update_metadata: state of each future, by index in file_list
    results,    \* batch_update_metadata: the buffer of extracted metadata
    max_workers,    \* batch_update_metadata: width of the thread pool
    batch_size,     \* batch_update_metadata: buffer length that triggers a flush
    upserts,        \* batch_update_metadata: the lists it has handed to the store
    spc,            \* find_and_move_images: position of the main process
    all_files,      \* find_and_move_images: the files to examine
    idx,            \* find_and_move_images: i, the files of earlier batches
    task,           \* find_and_move_images: each process_file task, by index in all_files
    file_moves,     \* find_and_move_images: the recorded (old_path, new_path)
    moved_files,    \* find_and_move_images: the count of moved files
    terms,          \* find_and_move_images: (metadata_key, metadata_value)
    search_mode,    \* find_and_move_images: "1" or "2"
    move_batch_size,    \* find_and_move_images: batch_size
    flushes,        \* find_and_move_images: batches whose flush step is over
    metadata_after_prompt,  \* model extraction harness: the secondary metadata
    model,                  \* model extraction harness: what the extraction gave
    mpc,                    \* model extraction harness: position
    xpc,            \* parallel_list_models_in_directory: position of the main thread
    file_paths,     \* parallel_list_models_in_directory: the files of the walk
    futures,        \* parallel_list_models_in_directory: each get_model_for_file task
    models,         \* parallel_list_models_in_directory: model -> list of file paths
    index_workers,  \* parallel_list_models_in_directory: width of the thread pool
    history,        \* PathHistory: the list of paths
    max_history,    \* PathHistory: the most paths it keeps
    added           \* PathHistory: the paths given to add since the last clear, in order

storeVars == <<store, now, fs, lastOp, txn>>
normVars == <<raw, once, twice, npc>>
ingVars == <<ipc, file_list, fut, results, max_workers, batch_size, upserts>>
moveVars == <<spc, all_files, idx, task, file_moves, moved_files, terms, search_mode,
              move_batch_size, flushes>>
modelVars == <<metadata_after_prompt, model, mpc>>
indexVars == <<xpc, file_paths, futures, models, index_workers>>
histVars == <<history, max_history, added>>
vars == <<store, now, fs, lastOp, txn, raw, once, twice, npc,
          ipc, file_list, fut, results, max_workers, batch_size, upserts,
          spc, all_files, idx, task, file_moves, moved_files, terms, search_mode,
          move_batch_size, flushes, metadata_after_prompt, model, mpc,
          xpc, file_paths, futures, models, index_workers,
          history, max_history, added>>

-----------------------------------------------------------------------------
(* Bounds *)

MaxLen == 5        \* longest raw text fed to the normalizer harness
MaxTime == 3       \* store operations in one run of the store harness
MaxBatch == 2      \* longest list handed to a batched store operation; largest batch_size
MaxWorkers == 2    \* widest worker pool
MaxItems == 2      \* most entries in the payload after 'Civitai resources:'
MaxHistory == 2    \* largest max_history of a PathHistory
MaxAdds == 4       \* most calls of PathHistory.add between two calls of clear

-----------------------------------------------------------------------------
(* Texts *)

None == <<"None">>

Whitespace == {" ", "\t", "\n", "\r"}

UpperToLower ==
    [c \in {"A","B","C","D","E","F","G","H","I","J","K","L","M",
            "N","O","P","Q","R","S","T","U","V","W","X","Y","Z"} |->
        CASE c = "A" -> "a" [] c = "B" -> "b" [] c = "C" -> "c" [] c = "D" -> "d"
          [] c = "E" -> "e" [] c = "F" -> "f" [] c = "G" -> "g" [] c = "H" -> "h"
          [] c = "I" -> "i" [] c = "J" -> "j" [] c = "K" -> "k" [] c = "L" -> "l"
          [] c = "M" -> "m" [] c = "N" -> "n" [] c = "O" -> "o" [] c = "P" -> "p"
          [] c = "Q" -> "q" [] c = "R" -> "r" [] c = "S" -> "s" [] c = "T" -> "t"
          [] c = "U" -> "u" [] c = "V" -> "v" [] c = "W" -> "w" [] c = "X" -> "x"
          [] c = "Y" -> "y" [] c = "Z" -> "z"]

\* str.lower()
Lower(s) ==
    [k \in 1..Len(s) |-> IF s[k] \in DOMAIN UpperToLower THEN UpperToLower[s[k]] ELSE s[k]]

\* s[i:i+len(sub)] == sub, 1-based
MatchAt(s, sub, i) ==
    /\ i + Len(sub) - 1 <= Len(s)
    /\ \A k \in 1..Len(sub) : s[i + k - 1] = sub[k]

\* str.find(sub), 1-based; 0 when sub does not occur
Find(s, sub) ==
    LET hits == {i \in 1..(Len(s) + 1) : MatchAt(s, sub, i)}
    IN  IF hits = {} THEN 0 ELSE CHOOSE i \in hits : \A j \in hits : i <= j

\* sub in s
Contains(s, sub) == Find(s, sub) # 0

\* str.strip()
Strip(s) ==
    LET keep == {k \in 1..Len(s) : s[k] \notin Whitespace}
    IN  IF keep = {} THEN <<>>
        ELSE LET lo == CHOOSE k \in keep : \A j \in keep : k <= j
                 hi == CHOOSE k \in keep : \A j \in keep : k >= j
             IN  SubSeq(s, lo, hi)

\* str.split(sep, 1): one or two parts
SplitOnce(s, sep) ==
    LET i == Find(s, sep)
    IN  IF i = 0 THEN <<s>>
        ELSE <<SubSeq(s, 1, i - 1), SubSeq(s, i + Len(sep), Len(s))>>

RECURSIVE SplitAll(_, _)
\* str.split(sep): every part
SplitAll(s, sep) ==
    LET p == SplitOnce(s, sep)
    IN  IF Len(p) = 1 THEN <<s>> ELSE <<p[1]>> \o SplitAll(p[2], sep)

RECURSIVE Join(_, _)
\* sep.join(parts)
Join(parts, sep) ==
    IF Len(parts) = 0 THEN <<>>
    ELSE IF Len(parts) = 1 THEN parts[1]
    ELSE parts[1] \o sep \o Join(Tail(parts), sep)

-----------------------------------------------------------------------------
(* Metadata normalizer *)

KeyValueDelimiter == <<":", " ">>

\* f'{normalized_key}: {normalized_value}' written without the blank
FormatLineNoBlank(key, value) == key \o <<":">> \o value

\* f'{normalized_key}: {normalized_value}'
FormatLine(key, value) == key \o KeyValueDelimiter \o value

\* one line of the loop: the normalized line, or nothing when ': ' is absent
NormalizeLine(line) ==
    IF Contains(line, KeyValueDelimiter)
    THEN LET kv == SplitOnce(line, KeyValueDelimiter)
         IN  <<FormatLine(Lower(Strip(kv[1])), Strip(kv[2]))>>
    ELSE <<>>

RECURSIVE NormalizeLines(_)
NormalizeLines(lines) ==
    IF Len(lines) = 0 THEN <<>>
    ELSE NormalizeLine(Head(lines)) \o NormalizeLines(Tail(lines))

normalize_metadata(metadata) ==
    IF metadata = None THEN None
    ELSE Join(NormalizeLines(SplitAll(metadata, <<"\n">>)), <<"\n">>)

-----------------------------------------------------------------------------
(* Paths, files and raw metadata *)

Dirs == {"a", "b"}          \* the directories that are walked
TargetDir == "t"            \* the directory search-and-move moves into
FileNames == {"x.png", "y.png"}

\* a path is <<directory, base name>>
Paths == Dirs \X FileNames
AllPaths == (Dirs \cup {TargetDir}) \X FileNames

\* os.walk: the order in which a walk meets the paths
WalkOrder == <<<<"a", "x.png">>, <<"a", "y.png">>, <<"b", "x.png">>, <<"b", "y.png">>>>

\* Path(filepath).name, os.path.basename(file_path)
BaseName(path) == path[2]

\* os.path.join(target_dir, os.path.basename(file_path))
JoinPath(dir, name) == <<dir, name>>

NegativePrompt ==
    <<"N","e","g","a","t","i","v","e"," ","p","r","o","m","p","t",":">>

\* "foo: 1\nNegative prompt: bar: 2"
RawFooBar ==
    <<"f","o","o",":"," ","1","\n">> \o NegativePrompt \o <<" ","b","a","r",":"," ","2">>

\* " Foo : 1 \nnote\nbaz: " : no separator token, a key to canonicalize, a
\* line without ': ', and a last line whose value is empty
RawNoPrompt ==
    <<" ","F","o","o"," ",":"," ","1"," ","\n","n","o","t","e","\n","b","a","z",":"," ">>

\* "note\nNegative prompt: bar: 2" : no line with ': ' before the separator token
RawNoPrimary ==
    <<"n","o","t","e","\n">> \o NegativePrompt \o <<" ","b","a","r",":"," ","2">>

RawTexts == {RawFooBar, RawNoPrompt, RawNoPrimary}

NoFile == [raw |-> None, mtime |-> 0 - 1]

FileOf(text) == [raw |-> text, mtime |-> 0]

Exists(path) == fs[path] # NoFile

\* the metadata embedded in the file that a walk finds under path
ContentOf(path) ==
    IF path[1] = "a" THEN RawFooBar
    ELSE IF path[2] = "x.png" THEN RawNoPrompt ELSE RawNoPrimary

-----------------------------------------------------------------------------
(* Metadata store: table file_metadata *)

NoOp == [op |-> "none"]

\* no transaction is open
NoTxn == [state |-> "none"]

\* one element of metadata_list: (file_name, file_path, metadata)
Entry(path, text) == <<BaseName(path), path, text>>

\* the values bound to the INSERT for one element of metadata_list
RowOf(entry, current_time) ==
    LET parts == SplitOnce(entry[3], NegativePrompt)
    IN  [file_name |-> entry[1],
         file_path |-> entry[2],
         last_modified |-> fs[entry[2]].mtime,
         metadata |-> normalize_metadata(Strip(parts[1])),
         metadata_after_prompt |->
             IF Len(parts) > 1 THEN normalize_metadata(Strip(parts[2])) ELSE <<>>,
         last_updated |-> current_time]

\* INSERT without the ON CONFLICT clause
InsertRowNoConflict(rows, new) == rows \cup {new}

\* INSERT ... ON CONFLICT(file_name) DO NOTHING
InsertOrIgnoreRow(rows, new) ==
    IF \E r \in rows : r.file_name = new.file_name THEN rows ELSE rows \cup {new}

\* INSERT ... ON CONFLICT(file_name) DO UPDATE SET ... = EXCLUDED. ...
InsertOrUpdateRow(rows, new) ==
    IF \E r \in rows : r.file_name = new.file_name
    THEN {IF r.file_name = new.file_name THEN new ELSE r : r \in rows}
    ELSE rows \cup {new}

\* the table rewritten from the batch: rows of other file names are dropped
UpsertAllReplacing(rows, metadata_list, current_time) ==
    {RowOf(metadata_list[k], current_time) : k \in 1..Len(metadata_list)}

RECURSIVE UpsertAll(_, _, _)
\* the for loop of bulk_update_or_insert_metadata, in list order
UpsertAll(rows, metadata_list, current_time) ==
    IF Len(metadata_list) = 0 THEN rows
    ELSE UpsertAll(InsertOrUpdateRow(rows, RowOf(Head(metadata_list), current_time)),
                   Tail(metadata_list), current_time)

\* os.path.getmtime(file_path) succeeds for every element
AllReadable(metadata_list) ==
    \A k \in 1..Len(metadata_list) : Exists(metadata_list[k][2])

\* bulk_update_or_insert_metadata: one transaction; an exception inside the
\* with block rolls it back and reaches the caller
bulk_update_or_insert_metadata(metadata_list) ==
    LET ok == AllReadable(metadata_list)
    IN  /\ now' = now + 1
        /\ store' = IF ok THEN UpsertAll(store, metadata_list, now + 1) ELSE store
        /\ lastOp' = [op |-> "upsert", list |-> metadata_list, raised |-> ~ok,
                      conflicts |-> {r.file_name : r \in store} \cap
                                    {metadata_list[k][1] : k \in 1..Len(metadata_list)}]

\* UPDATE without the WHERE clause
UpdateEveryPath(rows, old_path, new_path, current_time) ==
    {[r EXCEPT !.file_path = new_path, !.last_updated = current_time] : r \in rows}

\* the UPDATE with new_path and old_path bound the other way round
UpdatePathSwapped(rows, old_path, new_path, current_time) ==
    {IF r.file_path = new_path
     THEN [r EXCEPT !.file_path = old_path, !.last_updated = current_time]
     ELSE r : r \in rows}

\* UPDATE file_metadata SET file_path = ? WHERE file_path = ?
UpdatePathNoStamp(rows, old_path, new_path, current_time) ==
    {IF r.file_path = old_path THEN [r EXCEPT !.file_path = new_path] ELSE r : r \in rows}

\* UPDATE file_metadata SET file_path = ?, last_updated = ? WHERE file_path = ?
UpdatePath(rows, old_path, new_path, current_time) ==
    {IF r.file_path = old_path
     THEN [r EXCEPT !.file_path = new_path, !.last_updated = current_time]
     ELSE r : r \in rows}

\* cursor.rowcount of that UPDATE
RowCount(rows, old_path) == Cardinality({r \in rows : r.file_path = old_path})

\* update_file_path: never raises (both except clauses only log)
update_file_path(old_path, new_path) ==
    /\ now' = now + 1
    /\ store' = UpdatePath(store, old_path, new_path, now + 1)
    /\ lastOp' = [op |-> "rewrite", old |-> old_path, new |-> new_path,
                  rowcount |-> RowCount(store, old_path), raised |-> FALSE]

RECURSIVE UpdatePathsStopAtMiss(_, _, _)
\* executemany that gives up at the first statement matching no row
UpdatePathsStopAtMiss(rows, moves, current_time) ==
    IF Len(moves) = 0 \/ RowCount(rows, Head(moves)[1]) = 0 THEN rows
    ELSE UpdatePathsStopAtMiss(
             UpdatePath(rows, Head(moves)[1], Head(moves)[2], current_time),
             Tail(moves), current_time)

RECURSIVE UpdatePaths(_, _, _)
\* cursor.executemany: the UPDATE once per (old_path, new_path), in list order
UpdatePaths(rows, moves, current_time) ==
    IF Len(moves) = 0 THEN rows
    ELSE UpdatePaths(
             UpdatePath(rows, Head(moves)[1], Head(moves)[2], current_time),
             Tail(moves), current_time)

RECURSIVE RowCounts(_, _, _)
\* the rowcount of each UPDATE of the executemany
RowCounts(rows, moves, current_time) ==
    IF Len(moves) = 0 THEN <<>>
    ELSE <<RowCount(rows, Head(moves)[1])>> \o
         RowCounts(UpdatePath(rows, Head(moves)[1], Head(moves)[2], current_time),
                   Tail(moves), current_time)

\* batch_update_file_paths: never raises (both except clauses only log)
batch_update_file_paths(moves) ==
    /\ now' = now + 1
    /\ store' = UpdatePaths(store, moves, now + 1)
    /\ lastOp' = [op |-> "batch", moves |-> moves, raised |-> FALSE,
                  rowcounts |-> RowCounts(store, moves, now + 1)]

\* SELECT metadata, metadata_after_prompt ... WHERE file_path = ?; fetchone():
\* the rows the cursor may yield first
Fetched(rows, file_path) ==
    {<<r.metadata, r.metadata_after_prompt>> : r \in {q \in rows : q.file_path = file_path}}

\* get_metadata: data if data else (None, None)
GetResults(rows, file_path) ==
    IF Fetched(rows, file_path) = {} THEN {<<None, None>>} ELSE Fetched(rows, file_path)

-----------------------------------------------------------------------------
(* Store harness: any sequence of store operations on a fixed file tree,   *)
(* in which b/y.png does not exist.  As the callers do, a batch names a    *)
(* path (an old path) at most once, an element of metadata_list is the     *)
(* file's base name, its path and the text extracted from it, and a move   *)
(* takes a file to another directory under its base name.                  *)

\* what fetch_metadata returns for a file that exists
Extracted(path) == fs[path].raw

\* the lists of 1..n elements of S without repetition
ListsUpTo(S, n) ==
    UNION {{q \in [1..k -> S] : \A i \in 1..k, j \in 1..k : q[i] = q[j] => i = j} :
           k \in 1..n}

\* (old_path, new_path) of a move: os.path.join(target_dir, basename(old_path))
Moves == {m \in Paths \X Paths : m[1] # m[2] /\ BaseName(m[1]) = BaseName(m[2])}

\* as ListsUpTo, and no two moves leave the same old path
MoveListsUpTo(S, n) ==
    {q \in ListsUpTo(S, n) : \A i \in 1..Len(q), j \in 1..Len(q) : q[i][1] = q[j][1] => i = j}

InitNormIdle ==
    /\ raw = None
    /\ once = None
    /\ twice = None
    /\ npc = "idle"

InitModelIdle ==
    /\ metadata_after_prompt = None
    /\ model = [value |-> None, raised |-> FALSE]
    /\ mpc = "idle"

InitIndexIdle ==
    /\ xpc = "idle"
    /\ file_paths = <<>>
    /\ futures = <<>>
    /\ models = <<>>
    /\ index_workers = 1

InitHistIdle ==
    /\ history = <<>>
    /\ max_history = 1
    /\ added = <<>>

InitIngestIdle ==
    /\ ipc = "idle"
    /\ file_list = <<>>
    /\ fut = <<>>
    /\ results = <<>>
    /\ max_workers = 1
    /\ batch_size = 1
    /\ upserts = <<>>

InitMoveIdle ==
    /\ spc = "idle"
    /\ all_files = <<>>
    /\ idx = 0
    /\ task = <<>>
    /\ file_moves = <<>>
    /\ moved_files = 0
    /\ terms = <<<<>>, <<>>>>
    /\ search_mode = "1"
    /\ move_batch_size = 1
    /\ flushes = 0

InitStoreIdle ==
    /\ store = {}
    /\ now = 0
    /\ fs = [p \in AllPaths |-> NoFile]
    /\ lastOp = NoOp
    /\ txn = NoTxn
    /\ InitIngestIdle
    /\ InitMoveIdle

InitStore ==
    /\ store = {}
    /\ now = 0
    /\ fs = [p \in AllPaths |->
                IF p \in Paths \ {<<"b", "y.png">>} THEN FileOf(ContentOf(p)) ELSE NoFile]
    /\ lastOp = NoOp
    /\ txn = NoTxn
    /\ InitNormIdle
    /\ InitModelIdle
    /\ InitIngestIdle
    /\ InitMoveIdle
    /\ InitIndexIdle
    /\ InitHistIdle

UpsertBatch ==
    /\ now < MaxTime
    /\ \E paths \in ListsUpTo(Paths, MaxBatch) :
           bulk_update_or_insert_metadata(
               [k \in 1..Len(paths) |-> Entry(paths[k], Extracted(paths[k]))])
    /\ UNCHANGED fs
    /\ UNCHANGED txn
    /\ UNCHANGED normVars
    /\ UNCHANGED modelVars
    /\ UNCHANGED ingVars
    /\ UNCHANGED moveVars
    /\ UNCHANGED indexVars
    /\ UNCHANGED histVars

RewritePath ==
    /\ now < MaxTime
    /\ \E m \in Moves : update_file_path(m[1], m[2])
    /\ UNCHANGED fs
    /\ UNCHANGED txn
    /\ UNCHANGED normVars
    /\ UNCHANGED modelVars
    /\ UNCHANGED ingVars
    /\ UNCHANGED moveVars
    /\ UNCHANGED indexVars
    /\ UNCHANGED histVars

RewritePathsBatch ==
    /\ now < MaxTime
    /\ \E moves \in MoveListsUpTo(Moves, MaxBatch) :
           batch_update_file_paths(moves)
    /\ UNCHANGED fs
    /\ UNCHANGED txn
    /\ UNCHANGED normVars
    /\ UNCHANGED modelVars
    /\ UNCHANGED ingVars
    /\ UNCHANGED moveVars
    /\ UNCHANGED indexVars
    /\ UNCHANGED histVars

NextStore == UpsertBatch \/ RewritePath \/ RewritePathsBatch

SpecStore == InitStore /\ [][NextStore]_vars

-----------------------------------------------------------------------------
(* Claims about the store *)

RowsNamed(rows, name) == {r \in rows : r.file_name = name}

\* C1: after any sequence of upsert_batch, rewrite_path and rewrite_paths_batch
\* the store never holds two rows with the same file_name
C1_FileNameUnique ==
    \A r \in store, q \in store : r.file_name = q.file_name => r = q

\* a file_name that had a row was re-ingested under another path
C1_Witness ==
    /\ lastOp.op = "upsert"
    /\ ~lastOp.raised
    /\ "x.png" \in lastOp.conflicts
    /\ lastOp.list = <<Entry(<<"b", "x.png">>, RawNoPrompt)>>
    /\ \E r \in store : r.file_path = <<"b", "x.png">> /\ r.last_updated = now
    /\ \E r \in store : r.file_name = "y.png" /\ r.last_updated < now

\* the last element of metadata_list with the file_name of element k
LastNamed(metadata_list, k) ==
    CHOOSE j \in k..Len(metadata_list) :
        /\ metadata_list[j][1] = metadata_list[k][1]
        /\ \A i \in (j + 1)..Len(metadata_list) : metadata_list[i][1] # metadata_list[k][1]

\* C2: upsert is last-write-wins keyed by file_name: after an upsert_batch every
\* file_name of the batch has exactly one row, and the row's file_path and both
\* metadata fields are those of the last element of the batch with that file_name,
\* whatever row the store held for it before
C2_LastWriteWins ==
    (lastOp.op = "upsert" /\ ~lastOp.raised) =>
        \A k \in 1..Len(lastOp.list) :
            LET last == lastOp.list[LastNamed(lastOp.list, k)]
                parts == SplitOnce(last[3], NegativePrompt)
            IN  /\ Cardinality(RowsNamed(store, last[1])) = 1
                /\ \A r \in RowsNamed(store, last[1]) :
                       /\ r.file_path = last[2]
                       /\ r.metadata = normalize_metadata(Strip(parts[1]))
                       /\ r.metadata_after_prompt =
                              IF Len(parts) > 1 THEN normalize_metadata(Strip(parts[2]))
                              ELSE <<>>

\* x.png had a row, and one batch upserted it under a/ and then under b/
C2_Witness ==
    /\ lastOp.op = "upsert"
    /\ ~lastOp.raised
    /\ "x.png" \in lastOp.conflicts
    /\ lastOp.list = <<Entry(<<"a", "x.png">>, RawFooBar), Entry(<<"b", "x.png">>, RawNoPrompt)>>
    /\ \E r \in store : r.file_name = "x.png" /\ r.file_path = <<"b", "x.png">>

\* C6: rewrite_path(old_path, new_path) when no row has file_path = old_path
\* returns normally and leaves every row as it was, last_updated included
C6_RewriteMissIsNoOp ==
    [][(/\ lastOp'.op = "rewrite"
        /\ now' = now + 1
        /\ ~\E r \in store : r.file_path = lastOp'.old)
       => (store' = store /\ ~lastOp'.raised)]_vars

\* a rewrite_path met a store that holds rows, none of them under old_path
C6_Witness ==
    /\ lastOp.op = "rewrite"
    /\ lastOp.rowcount = 0
    /\ ~lastOp.raised
    /\ Cardinality(store) = 2
    /\ \A r \in store : r.file_path # lastOp.old /\ r.last_updated < now

RECURSIVE Chase(_, _)
\* where the moves, applied in order, take a row that is under path
Chase(path, moves) ==
    IF Len(moves) = 0 THEN path
    ELSE Chase(IF Head(moves)[1] = path THEN Head(moves)[2] ELSE path,
               Tail(moves))

RECURSIVE Matched(_, _)
\* some move, applied in order, finds the row that starts under path
Matched(path, moves) ==
    /\ Len(moves) > 0
    /\ \/ Head(moves)[1] = path
       \/ Matched(path, Tail(moves))

\* C7: rewrite_paths_batch rewrites every row whose path an entry matches,
\* although other entries match no row: the row ends where the moves take it
\* and is stamped, every other row is unchanged, and the batch does not fail
C7_BatchSurvivesUnmatched ==
    [][(lastOp'.op = "batch" /\ now' = now + 1) =>
         /\ ~lastOp'.raised
         /\ Cardinality(store') = Cardinality(store)
         /\ \A r \in store :
                IF Matched(r.file_path, lastOp'.moves)
                THEN [r EXCEPT !.file_path = Chase(r.file_path, lastOp'.moves),
                               !.last_updated = now'] \in store'
                ELSE r \in store']_vars

\* the first move of a batch matched no row and the second one rewrote a row
C7_Witness ==
    /\ lastOp.op = "batch"
    /\ ~lastOp.raised
    /\ Len(lastOp.moves) = 2
    /\ lastOp.rowcounts = <<0, 1>>
    /\ \E r \in store : r.file_path = lastOp.moves[2][2] /\ r.last_updated = now
    /\ \E r \in store : r.last_updated < now

\* C13: when the modification time of one record's file cannot be read, only
\* that record's upsert fails: every record of the batch whose file is readable
\* (the last of its file_name) is written by the call
C13_UnreadableFailsOneRecord ==
    (/\ lastOp.op = "upsert"
     /\ \E k \in 1..Len(lastOp.list) : ~Exists(lastOp.list[k][2])) =>
        \A k \in 1..Len(lastOp.list) :
            (Exists(lastOp.list[k][2]) /\ LastNamed(lastOp.list, k) = k) =>
                \E r \in store :
                    r.file_path = lastOp.list[k][2] /\ r.last_updated = now

\* the row with this file_name
RowNamed(rows, name) == CHOOSE r \in rows : r.file_name = name

\* C20: every store write that changes a row stamps it: a row an upsert wrote
\* and a row a rewrite_path or rewrite_paths_batch matched has last_updated
\* equal to the time of the operation, every other row keeps its stamp, and no
\* row's last_updated decreases
C20_WritesStampLastUpdated ==
    [][now' = now + 1 =>
         /\ \A q \in store' : q \notin store => q.last_updated = now'
         /\ \A r \in store :
                /\ RowsNamed(store', r.file_name) # {}
                /\ RowNamed(store', r.file_name).last_updated >= r.last_updated
                /\ LET written ==
                           \/ /\ lastOp'.op = "upsert"
                              /\ ~lastOp'.raised
                              /\ \E k \in 1..Len(lastOp'.list) :
                                     lastOp'.list[k][1] = r.file_name
                           \/ /\ lastOp'.op = "rewrite"
                              /\ lastOp'.old = r.file_path
                           \/ /\ lastOp'.op = "batch"
                              /\ Matched(r.file_path, lastOp'.moves)
                   IN  RowNamed(store', r.file_name).last_updated =
                           IF written THEN now' ELSE r.last_updated]_vars

\* the third write is a batched rewrite that matched a row, now stamped 3, next
\* to a row that no write has touched since time 1
C20_Witness ==
    /\ now = 3
    /\ lastOp.op = "batch"
    /\ \E k \in 1..Len(lastOp.moves) :
           /\ lastOp.rowcounts[k] = 1
           /\ \E r \in store : r.file_path = lastOp.moves[k][2] /\ r.last_updated = 3
    /\ \E r \in store : r.last_updated = 1

\* C28: a rewrite_path carries the cached metadata with the file: when get by
\* old_path finds a pair, after the rewrite get by new_path returns that pair
\* and get by old_path returns absent, and the same rewrite applied again
\* right after leaves the table as it is
C28_RewriteCarriesMetadata ==
    [][(lastOp'.op = "rewrite" /\ now' = now + 1) =>
         /\ Fetched(store, lastOp'.old) # {} =>
                /\ GetResults(store', lastOp'.new) = Fetched(store, lastOp'.old)
                /\ GetResults(store', lastOp'.old) = {<<None, None>>}
         /\ (/\ lastOp.op = "rewrite"
             /\ lastOp.old = lastOp'.old
             /\ lastOp.new = lastOp'.new) => store' = store]_vars

\* a rewrite_path found the row of a/x.png, ingested from "foo: 1\nNegative
\* prompt: bar: 2", and the row is now under b/x.png with that pair
C28_Witness ==
    /\ lastOp.op = "rewrite"
    /\ lastOp.rowcount = 1
    /\ lastOp.old = <<"a", "x.png">>
    /\ lastOp.new = <<"b", "x.png">>
    /\ LET row == RowOf(Entry(lastOp.old, RawFooBar), now)
       IN  GetResults(store, lastOp.new) = {<<row.metadata, row.metadata_after_prompt>>}
    /\ GetResults(store, lastOp.old) = {<<None, None>>}
    /\ \E r \in store : r.file_path = lastOp.new /\ r.last_updated = now

\* the rewrite of a/y.png to b/y.png was applied at time 2 and again at time 3,
\* and the second one matched no row
C28_WitnessRepeated ==
    /\ now = 3
    /\ lastOp.op = "rewrite"
    /\ lastOp.rowcount = 0
    /\ lastOp.old = <<"a", "y.png">>
    /\ lastOp.new = <<"b", "y.png">>
    /\ \E r \in store : r.file_path = lastOp.new /\ r.last_updated = 2

-----------------------------------------------------------------------------
(* Row lifecycle: the store operations on a file tree whose files may be   *)
(* deleted behind the program's back                                       *)

\* the file of a row is gone from the filesystem: os.path.getmtime(file_path)
\* raises for it from now on
FileVanishes ==
    /\ \E p \in Paths :
           /\ Exists(p)
           /\ \E r \in store : r.file_path = p
           /\ fs' = [fs EXCEPT ![p] = NoFile]
    /\ UNCHANGED <<store, now, lastOp>>
    /\ UNCHANGED txn
    /\ UNCHANGED normVars
    /\ UNCHANGED modelVars
    /\ UNCHANGED ingVars
    /\ UNCHANGED moveVars
    /\ UNCHANGED indexVars
    /\ UNCHANGED histVars

NextLife == UpsertBatch \/ RewritePath \/ RewritePathsBatch \/ FileVanishes

SpecLife == InitStore /\ [][NextLife]_vars

\* C21: no operation removes a row: every file_name that has a row keeps a row
\* through every upsert_batch, rewrite_path and rewrite_paths_batch, whether or
\* not its file is still on the filesystem
C21_RowsNeverRemoved ==
    [][\A r \in store : \E q \in store' : q.file_name = r.file_name]_vars

\* a row written at time 1 whose file has vanished is still there after two
\* more store operations, the last one an upsert_batch that wrote another row
C21_Witness ==
    /\ now = 3
    /\ lastOp.op = "upsert"
    /\ ~lastOp.raised
    /\ \E r \in store : ~Exists(r.file_path) /\ r.last_updated = 1
    /\ \E r \in store : r.last_updated = 3

-----------------------------------------------------------------------------
(* Ingestion pipeline: batch_update_metadata over the files a walk finds   *)

\* the files of the walked directories, in walk order
Walk == SelectSeq(WalkOrder, Exists)

Running == {k \in 1..Len(fut) : fut[k] = "running"}
Queued == {k \in 1..Len(fut) : fut[k] = "queued"}

\* len(results) >= batch_size
BufferFull(buffer) == Len(buffer) >= batch_size

\* the remaining results dropped when the loop ends
RemainingDropped(buffer) == FALSE

\* if results:
Remaining(buffer) == Len(buffer) > 0

InitIngest ==
    /\ store = {}
    /\ now = 0
    /\ fs \in {f \in [AllPaths -> {NoFile} \cup {FileOf(t) : t \in RawTexts}] :
                  \A p \in AllPaths : f[p] # NoFile => p \in Paths /\ f[p] = FileOf(ContentOf(p))}
    /\ lastOp = NoOp
    /\ txn = NoTxn
    /\ InitNormIdle
    /\ InitModelIdle
    /\ ipc = "loop"
    /\ file_list = Walk
    /\ fut = [k \in 1..Len(file_list) |-> "queued"]
    /\ results = <<>>
    /\ max_workers \in 1..MaxWorkers
    /\ batch_size \in 1..MaxBatch
    /\ upserts = <<>>
    /\ InitMoveIdle
    /\ InitIndexIdle
    /\ InitHistIdle

\* a pool thread takes the oldest queued future
IngestStart(k) ==
    /\ ipc = "loop"
    /\ fut[k] = "queued"
    /\ \A j \in Queued : k <= j
    /\ Cardinality(Running) < max_workers
    /\ fut' = [fut EXCEPT ![k] = "running"]
    /\ UNCHANGED <<ipc, file_list, results, max_workers, batch_size, upserts>>
    /\ UNCHANGED storeVars
    /\ UNCHANGED normVars
    /\ UNCHANGED modelVars
    /\ UNCHANGED moveVars
    /\ UNCHANGED indexVars
    /\ UNCHANGED histVars

\* fetch_metadata returns (filepath, stdout, None) or (filepath, None, error)
IngestExtract(k) ==
    /\ fut[k] = "running"
    /\ \E ok \in BOOLEAN : fut' = [fut EXCEPT ![k] = IF ok THEN "ok" ELSE "error"]
    /\ UNCHANGED <<ipc, file_list, results, max_workers, batch_size, upserts>>
    /\ UNCHANGED storeVars
    /\ UNCHANGED normVars
    /\ UNCHANGED modelVars
    /\ UNCHANGED moveVars
    /\ UNCHANGED indexVars
    /\ UNCHANGED histVars

\* the result appended whether or not the extraction failed
BufferedAlways(k) == Append(results, Entry(file_list[k], Extracted(file_list[k])))

\* filepath, metadata, error = future.result(): an error is logged, a success
\* is appended to results
Buffered(k) ==
    IF fut[k] = "ok"
    THEN Append(results, Entry(file_list[k], Extracted(file_list[k])))
    ELSE results

\* one iteration of the as_completed loop: future k is yielded
IngestCollect(k) ==
    /\ ipc = "loop"
    /\ fut[k] \in {"ok", "error"}
    /\ LET buffer == Buffered(k)
       IN  IF BufferFull(buffer)
           THEN /\ bulk_update_or_insert_metadata(buffer)
                /\ upserts' = Append(upserts, buffer)
                /\ results' = IF AllReadable(buffer) THEN <<>> ELSE buffer
                /\ ipc' = IF AllReadable(buffer) THEN "loop" ELSE "raised"
           ELSE /\ results' = buffer
                /\ UNCHANGED <<ipc, store, now, lastOp, upserts>>
    /\ fut' = [fut EXCEPT ![k] = IF fut[k] = "ok" THEN "taken_ok" ELSE "taken_error"]
    /\ UNCHANGED <<file_list, max_workers, batch_size, fs>>
    /\ UNCHANGED txn
    /\ UNCHANGED normVars
    /\ UNCHANGED modelVars
    /\ UNCHANGED moveVars
    /\ UNCHANGED indexVars
    /\ UNCHANGED histVars

\* after the loop: insert any remaining results, leave the with block, return
IngestFinish ==
    /\ ipc = "loop"
    /\ \A k \in 1..Len(fut) : fut[k] \in {"taken_ok", "taken_error"}
    /\ IF Remaining(results)
       THEN /\ bulk_update_or_insert_metadata(results)
            /\ upserts' = Append(upserts, results)
            /\ ipc' = IF AllReadable(results) THEN "done" ELSE "raised"
       ELSE /\ ipc' = "done"
            /\ UNCHANGED <<store, now, lastOp, upserts>>
    /\ UNCHANGED <<file_list, fut, results, max_workers, batch_size, fs>>
    /\ UNCHANGED txn
    /\ UNCHANGED normVars
    /\ UNCHANGED modelVars
    /\ UNCHANGED moveVars
    /\ UNCHANGED indexVars
    /\ UNCHANGED histVars

NextIngest ==
    \/ \E k \in 1..Len(fut) : IngestStart(k)
    \/ \E k \in 1..Len(fut) : IngestExtract(k)
    \/ \E k \in 1..Len(fut) : IngestCollect(k)
    \/ IngestFinish

SpecIngest == InitIngest /\ [][NextIngest]_vars

\* ingest has returned and the extractor succeeded for every file
IngestedAll ==
    /\ ipc = "done"
    /\ \A k \in 1..Len(fut) : fut[k] = "taken_ok"

\* C3: ingesting N files into an empty store with an extractor that succeeds for
\* every file leaves exactly N rows, for every pool width, batch size and
\* completion order
C3_IngestYieldsNRows == IngestedAll => Cardinality(store) = Len(file_list)

\* what bulk_update_or_insert_metadata caches for a raw text: each section
\* trimmed and normalized, the secondary empty when the token is absent
Cached(text) ==
    LET parts == SplitOnce(text, NegativePrompt)
    IN  <<normalize_metadata(Strip(parts[1])),
          IF Len(parts) > 1 THEN normalize_metadata(Strip(parts[2])) ELSE <<>>>>

\* C4: after ingest, get by the path of every successfully ingested file returns
\* exactly the pair (normalized text before the first 'Negative prompt:',
\* normalized text after it) of the file's raw metadata
C4_IngestGetRoundTrip ==
    ipc = "done" =>
        \A k \in 1..Len(fut) :
            fut[k] = "taken_ok" =>
                GetResults(store, file_list[k]) = {Cached(Extracted(file_list[k]))}

\* the main thread can take a step: as_completed has a finished future to
\* yield, or the loop is over
MainThreadReady ==
    /\ ipc = "loop"
    /\ \/ \E k \in 1..Len(fut) : fut[k] \in {"ok", "error"}
       \/ \A k \in 1..Len(fut) : fut[k] \in {"taken_ok", "taken_error"}

\* a step of the main thread
MainThreadStep == (\E k \in 1..Len(fut) : IngestCollect(k)) \/ IngestFinish

\* the pool threads and the main thread keep running: a pool thread that can
\* take a future takes it, fetch_metadata returns (the subprocess has a
\* timeout), and the main thread takes the step it is ready for (its weak
\* fairness, with the guards of its steps written out)
SpecIngestFair ==
    /\ InitIngest
    /\ [][NextIngest]_vars
    /\ WF_vars(\E k \in 1..Len(fut) : IngestStart(k))
    /\ WF_vars(\E k \in 1..Len(fut) : IngestExtract(k))
    /\ ([]<>(~MainThreadReady) \/ []<><<MainThreadStep>>_vars)

\* the places (flush, position) at which the result of file k was handed to
\* bulk_update_or_insert_metadata
FlushesOf(k) ==
    {<<i, j>> \in (1..Len(upserts)) \X (1..Len(file_list)) :
        j <= Len(upserts[i]) /\ upserts[i][j][2] = file_list[k]}

\* the places at which the result of file k waits in the buffer
BufferedAt(k) == {j \in 1..Len(results) : results[j][2] = file_list[k]}

\* at every point of an ingest: a flush holds between 1 and batch_size records,
\* the result of a collected successful extraction is either in one flush or
\* once in the buffer, no other file is in a flush or in the buffer, and once
\* ingest has returned every such result is in exactly one flush and the
\* buffer holds nothing that was not flushed
FlushedOnce ==
    /\ \A i \in 1..Len(upserts) :
           Len(upserts[i]) >= 1 /\ Len(upserts[i]) <= batch_size
    /\ \A k \in 1..Len(file_list) :
           /\ fut[k] # "taken_ok" => FlushesOf(k) = {} /\ BufferedAt(k) = {}
           /\ (fut[k] = "taken_ok" /\ ipc = "loop") =>
                  Cardinality(FlushesOf(k)) + Cardinality(BufferedAt(k)) = 1
           /\ (fut[k] = "taken_ok" /\ ipc = "done") =>
                  /\ Cardinality(FlushesOf(k)) = 1
                  /\ BufferedAt(k) # {} => \E f \in FlushesOf(k) : f[1] = Len(upserts)

Content(rows) ==
    {<<r.file_name, r.file_path, r.metadata, r.metadata_after_prompt>> : r \in rows}

\* the files whose extraction succeeded, in walk order
SucceededInOrder ==
    LET Ok(path) == \E k \in 1..Len(file_list) : file_list[k] = path /\ fut[k] = "taken_ok"
    IN  SelectSeq(file_list, Ok)

\* C26: the rows after ingest are a function of the files and the extractor
\* outputs: whatever the pool width and the completion order, they are the
\* rows of the run that collects the results in walk order
C26_IngestDeterministic ==
    ipc = "done" =>
        Content(store) =
            Content(UpsertAll({}, [k \in 1..Len(SucceededInOrder) |->
                                      Entry(SucceededInOrder[k], Extracted(SucceededInOrder[k]))],
                              now))

-----------------------------------------------------------------------------
(* Search and move: find_and_move_images over the files a walk finds, on   *)
(* a store that an ingest of those files has filled                        *)

\* "foo" / "1" occur in the primary metadata of RawFooBar, "bar" / "2" in its
\* secondary metadata only
SearchTerms == {<<<<"f","o","o">>, <<"1">>>>, <<<<"b","a","r">>, <<"2">>>>}

Reverse(q) == [k \in 1..Len(q) |-> q[Len(q) + 1 - k]]

\* the test written as 'is not None'
TruthyNotNone(text) == text # None

\* if metadata and metadata_after_prompt
Truthy(text) == text # None /\ text # <<>>

\* metadata_to_search taken as primary plus secondary in every mode
SearchTextBoth(mode, data) == data[1] \o <<" ">> \o data[2]

\* metadata if search_mode == "1" else metadata + " " + metadata_after_prompt
SearchText(mode, data) ==
    IF mode = "1" THEN data[1] ELSE data[1] \o <<" ">> \o data[2]

\* the two conditions under which process_file moves the file
Matches(data) ==
    /\ Truthy(data[1])
    /\ Truthy(data[2])
    /\ Contains(SearchText(search_mode, data), terms[1])
    /\ Contains(SearchText(search_mode, data), terms[2])

\* every file moved under one name
NewPathOneName(k) == JoinPath(TargetDir, "x.png")

\* new_file_path of task k
NewPath(k) == JoinPath(TargetDir, BaseName(all_files[k]))

\* a range that steps by one whatever the batch size
RangeStepOne(i, step) == i + 1

\* range(0, total_files, batch_size): the value of i after i
RangeStep(i, step) == i + step

\* all_files[i:] taken as the batch
BatchToEnd == {k \in 1..Len(all_files) : idx < k}

\* all_files[i:i+batch_size], as indices
Batch == {k \in 1..Len(all_files) : idx < k /\ k <= idx + move_batch_size}

\* the batch of file k, counted from 0
BatchOf(k) == (k - 1) \div move_batch_size

\* process_file has returned
Finished(k) == task[k].pc \in {"true", "false"}

\* the main process goes on without waiting for the futures
BatchNotAwaited == TRUE

\* the as_completed loop has yielded every future and the with block is left
BatchAwaited == \A k \in Batch : task[k].collected

\* an exception in one task that shuts the pool down: the queued tasks of the
\* batch are cancelled and return nothing
FailedCancelsSiblings(tasks, k, error) ==
    [j \in DOMAIN tasks |->
        IF j = k THEN [tasks[j] EXCEPT !.pc = "false", ![error] = TRUE]
        ELSE IF tasks[j].pc = "queued" THEN [tasks[j] EXCEPT !.pc = "false"]
        ELSE tasks[j]]

\* an exception in task k: an except clause of process_file logs it and the
\* task returns (False, file_path, None); no other task is touched
Failed(tasks, k, error) ==
    [tasks EXCEPT ![k].pc = "false", ![k][error] = TRUE]

\* shutil.move(file_path, new_file_path)
MoveFile(files, src, dst) ==
    [p \in DOMAIN files |-> IF p = dst THEN files[src]
                            ELSE IF p = src THEN NoFile ELSE files[p]]

InitSearch ==
    /\ fs \in {f \in [AllPaths -> {NoFile} \cup {FileOf(t) : t \in RawTexts}] :
                  \A p \in AllPaths : f[p] # NoFile => p \in Paths /\ f[p] = FileOf(ContentOf(p))}
    /\ \E order \in {Walk, Reverse(Walk)} :
           store = UpsertAll({}, [k \in 1..Len(order) |-> Entry(order[k], Extracted(order[k]))], 1)
    /\ now = 1
    /\ lastOp = NoOp
    /\ txn = NoTxn
    /\ InitNormIdle
    /\ InitModelIdle
    /\ InitIngestIdle
    /\ spc = "submit"
    /\ all_files = Walk
    /\ idx = 0
    /\ task = [k \in 1..Len(all_files) |->
                  [pc |-> "unsubmitted", data |-> <<None, None>>, collected |-> FALSE,
                   lookup_failed |-> FALSE, move_failed |-> FALSE]]
    /\ file_moves = <<>>
    /\ moved_files = 0
    /\ terms \in SearchTerms
    /\ search_mode \in {"1", "2"}
    /\ move_batch_size \in 1..MaxBatch
    /\ flushes = 0
    /\ InitIndexIdle
    /\ InitHistIdle

\* the next batch is handed to a fresh ProcessPoolExecutor
SearchSubmit ==
    /\ spc = "submit"
    /\ idx < Len(all_files)
    /\ task' = [k \in 1..Len(all_files) |->
                   IF k \in Batch THEN [task[k] EXCEPT !.pc = "queued"] ELSE task[k]]
    /\ spc' = "collect"
    /\ UNCHANGED <<all_files, idx, file_moves, moved_files, terms, search_mode,
                   move_batch_size, flushes>>
    /\ UNCHANGED storeVars
    /\ UNCHANGED normVars
    /\ UNCHANGED modelVars
    /\ UNCHANGED ingVars
    /\ UNCHANGED indexVars
    /\ UNCHANGED histVars

\* the range is exhausted: find_and_move_images returns
SearchReturn ==
    /\ spc = "submit"
    /\ idx >= Len(all_files)
    /\ spc' = "done"
    /\ UNCHANGED <<all_files, idx, task, file_moves, moved_files, terms, search_mode,
                   move_batch_size, flushes>>
    /\ UNCHANGED storeVars
    /\ UNCHANGED normVars
    /\ UNCHANGED modelVars
    /\ UNCHANGED ingVars
    /\ UNCHANGED indexVars
    /\ UNCHANGED histVars

\* process_file: get_metadata, which may raise a store error (the outer except
\* clause logs it and the task returns False), and the decision to move
TaskLookup(k) ==
    /\ task[k].pc = "queued"
    /\ \/ \E data \in GetResults(store, all_files[k]) :
              task' = [task EXCEPT ![k].data = data,
                                   ![k].pc = IF Matches(data) THEN "matched" ELSE "false"]
       \/ task' = Failed(task, k, "lookup_failed")
    /\ UNCHANGED <<spc, all_files, idx, file_moves, moved_files, terms, search_mode,
                   move_batch_size, flushes>>
    /\ UNCHANGED storeVars
    /\ UNCHANGED normVars
    /\ UNCHANGED modelVars
    /\ UNCHANGED ingVars
    /\ UNCHANGED indexVars
    /\ UNCHANGED histVars

\* process_file: shutil.move, which may fail; the error is logged and the
\* task returns False
TaskMove(k) ==
    /\ task[k].pc = "matched"
    /\ \E ok \in BOOLEAN :
           IF ok /\ Exists(all_files[k])
           THEN /\ fs' = MoveFile(fs, all_files[k], NewPath(k))
                /\ task' = [task EXCEPT ![k].pc = "moved"]
           ELSE /\ fs' = fs
                /\ task' = Failed(task, k, "move_failed")
    /\ UNCHANGED <<spc, all_files, idx, file_moves, moved_files, terms, search_mode,
                   move_batch_size, flushes>>
    /\ UNCHANGED <<store, now, lastOp>>
    /\ UNCHANGED txn
    /\ UNCHANGED normVars
    /\ UNCHANGED modelVars
    /\ UNCHANGED ingVars
    /\ UNCHANGED indexVars
    /\ UNCHANGED histVars

\* process_file: db_module.update_file_path and return True
TaskUpdate(k) ==
    /\ task[k].pc = "moved"
    /\ update_file_path(all_files[k], NewPath(k))
    /\ task' = [task EXCEPT ![k].pc = "true"]
    /\ UNCHANGED <<spc, all_files, idx, file_moves, moved_files, terms, search_mode,
                   move_batch_size, flushes>>
    /\ UNCHANGED fs
    /\ UNCHANGED txn
    /\ UNCHANGED normVars
    /\ UNCHANGED modelVars
    /\ UNCHANGED ingVars
    /\ UNCHANGED indexVars
    /\ UNCHANGED histVars

\* one iteration of the as_completed loop: the result of task k
SearchCollect(k) ==
    /\ spc = "collect"
    /\ k \in Batch
    /\ Finished(k)
    /\ ~task[k].collected
    /\ task' = [task EXCEPT ![k].collected = TRUE]
    /\ IF task[k].pc = "true"
       THEN /\ moved_files' = moved_files + 1
            /\ file_moves' = Append(file_moves, <<all_files[k], NewPath(k)>>)
       ELSE UNCHANGED <<moved_files, file_moves>>
    /\ UNCHANGED <<spc, all_files, idx, terms, search_mode, move_batch_size, flushes>>
    /\ UNCHANGED storeVars
    /\ UNCHANGED normVars
    /\ UNCHANGED modelVars
    /\ UNCHANGED ingVars
    /\ UNCHANGED indexVars
    /\ UNCHANGED histVars

\* after the batch: batch_update_file_paths(file_moves), file_moves.clear(),
\* and on to the next i
SearchFlush ==
    /\ spc = "collect"
    /\ BatchAwaited
    /\ IF Len(file_moves) > 0
       THEN /\ batch_update_file_paths(file_moves)
            /\ file_moves' = <<>>
       ELSE UNCHANGED <<store, now, lastOp, file_moves>>
    /\ idx' = RangeStep(idx, move_batch_size)
    /\ flushes' = flushes + 1
    /\ spc' = "submit"
    /\ UNCHANGED <<all_files, task, moved_files, terms, search_mode, move_batch_size>>
    /\ UNCHANGED fs
    /\ UNCHANGED txn
    /\ UNCHANGED normVars
    /\ UNCHANGED modelVars
    /\ UNCHANGED ingVars
    /\ UNCHANGED indexVars
    /\ UNCHANGED histVars

NextSearch ==
    \/ SearchSubmit
    \/ SearchReturn
    \/ \E k \in 1..Len(all_files) : TaskLookup(k)
    \/ \E k \in 1..Len(all_files) : TaskMove(k)
    \/ \E k \in 1..Len(all_files) : TaskUpdate(k)
    \/ \E k \in 1..Len(all_files) : SearchCollect(k)
    \/ SearchFlush

SpecSearch == InitSearch /\ [][NextSearch]_vars

\* task k has looked up its file and found non-empty primary and secondary
\* metadata, with both match terms in the secondary and neither in the primary
OnlyInSecondary(k) ==
    /\ task[k].pc \notin {"unsubmitted", "queued"}
    /\ Truthy(task[k].data[1])
    /\ Truthy(task[k].data[2])
    /\ Contains(task[k].data[2], terms[1])
    /\ Contains(task[k].data[2], terms[2])
    /\ ~Contains(task[k].data[1], terms[1])
    /\ ~Contains(task[k].data[1], terms[2])

\* C5: a file whose match terms occur only in its cached secondary metadata is
\* never moved in mode 1 (its task returns False and the file stays), and in
\* mode 2 its task goes on to move it and returns True with the file under the
\* target directory, unless shutil.move itself fails
C5_ModeSelectsSearchedText ==
    \A k \in 1..Len(all_files) :
        OnlyInSecondary(k) =>
            /\ search_mode = "1" =>
                   /\ task[k].pc = "false"
                   /\ ~task[k].move_failed
                   /\ Exists(all_files[k])
            /\ search_mode = "2" =>
                   /\ task[k].pc \in {"matched", "moved", "true"} \/ task[k].move_failed
                   /\ task[k].pc \in {"moved", "true"} =>
                          ~Exists(all_files[k]) /\ Exists(NewPath(k))
                   /\ (spc = "done" /\ ~task[k].move_failed) => task[k].pc = "true"

\* the run is over: in mode 2 a file matching only in its secondary metadata
\* was moved
C5_Witness ==
    /\ spc = "done"
    /\ search_mode = "2"
    /\ \E k \in 1..Len(all_files) :
           OnlyInSecondary(k) /\ task[k].pc = "true" /\ Exists(NewPath(k))

\* the run is over: in mode 1 a file matching only in its secondary metadata
\* stayed where it was
C5_WitnessStayed ==
    /\ spc = "done"
    /\ search_mode = "1"
    /\ \E k \in 1..Len(all_files) :
           OnlyInSecondary(k) /\ task[k].pc = "false" /\ Exists(all_files[k])

\* C9: batches are strictly sequential: a task is dispatched only when every
\* task of every earlier batch has finished and that batch's flush is over
C9_BatchesSequential ==
    \A k \in 1..Len(all_files) :
        task[k].pc # "unsubmitted" =>
            \A j \in 1..Len(all_files) :
                BatchOf(j) < BatchOf(k) =>
                    /\ Finished(j)
                    /\ task[j].collected
                    /\ flushes > BatchOf(j)

\* a second batch is running after a first batch of two tasks whose moves
\* were flushed
C9_Witness ==
    /\ move_batch_size = 2
    /\ Len(all_files) > 2
    /\ task[3].pc = "queued"
    /\ flushes = 1
    /\ moved_files = 2
    /\ lastOp.op = "batch"
    /\ Len(lastOp.moves) = 2

\* C10: the store is never written while a task of the current batch is in
\* flight: it changes only once every task of the batch has been awaited
C10_NoStoreWriteInFlight ==
    [][store' # store => (spc = "collect" /\ BatchAwaited)]_vars

\* file k has been moved on the filesystem and a row still records its old path
Stale(k) ==
    /\ ~Exists(all_files[k])
    /\ Exists(NewPath(k))
    /\ \E r \in store : r.file_path = all_files[k]

\* C11: at every point of a run at most batch_size files are moved while their
\* row still records the old path, and none is once a batch's flush is over
C11_StaleRowsWithinBatch ==
    /\ Cardinality({k \in 1..Len(all_files) : Stale(k)}) <= move_batch_size
    /\ spc \in {"submit", "done"} => \A k \in 1..Len(all_files) : ~Stale(k)

\* both files of a batch of two are moved and neither row is rewritten yet
C11_Witness ==
    /\ move_batch_size = 2
    /\ spc = "collect"
    /\ Cardinality({k \in Batch : Stale(k) /\ task[k].pc = "moved"}) = 2

\* the lookup of task k returned no row, or a row whose primary or secondary
\* metadata is absent or empty
NothingCached(k) ==
    /\ task[k].pc \notin {"unsubmitted", "queued"}
    /\ ~task[k].lookup_failed
    /\ \/ task[k].data[1] \in {None, <<>>}
       \/ task[k].data[2] \in {None, <<>>}

\* C15: a file with no row under its path, or with an absent or empty primary
\* or secondary metadata, is skipped in both modes: its task returns False
\* without an error, the file stays as it was and no row under its path is
\* created or written
C15_SkipsUncachedFiles ==
    \A k \in 1..Len(all_files) :
        NothingCached(k) =>
            /\ task[k].pc = "false"
            /\ ~task[k].move_failed
            /\ fs[all_files[k]] = FileOf(ContentOf(all_files[k]))
            /\ \A r \in store : r.file_path = all_files[k] => r.last_updated = 1
            /\ task[k].data = <<None, None>> =>
                   ~\E r \in store : r.file_path = all_files[k]

\* the run is over, in mode 2: a file ingested without the 'Negative prompt:'
\* token, a file with no row under its path, and a file whose primary metadata
\* is empty and whose secondary metadata holds both terms were skipped
C15_Witness ==
    /\ spc = "done"
    /\ search_mode = "2"
    /\ \E k \in 1..Len(all_files) :
           /\ NothingCached(k)
           /\ Truthy(task[k].data[1])
           /\ task[k].data[2] = <<>>
           /\ Exists(all_files[k])
    /\ \E k \in 1..Len(all_files) :
           /\ NothingCached(k)
           /\ task[k].data = <<None, None>>
           /\ Exists(all_files[k])
    /\ \E k \in 1..Len(all_files) :
           /\ NothingCached(k)
           /\ task[k].data[1] = <<>>
           /\ Contains(task[k].data[2], terms[1])
           /\ Contains(task[k].data[2], terms[2])
           /\ Exists(all_files[k])

\* task k met an error: its lookup raised or its move failed
TaskFailed(k) == task[k].lookup_failed \/ task[k].move_failed

\* C18: a task's failure neither cancels nor skips its siblings: when the run
\* is over every file whose task met no error is moved unless its cached
\* metadata does not match, a failed file is where it was with its row as it
\* was, and the count of moved files is the number of tasks that returned True
C18_FailureSparesSiblings ==
    spc = "done" =>
        /\ \A k \in 1..Len(all_files) :
               IF TaskFailed(k)
               THEN /\ task[k].pc = "false"
                    /\ Exists(all_files[k])
                    /\ \A r \in store : r.file_path = all_files[k] => r.last_updated = 1
               ELSE \/ /\ task[k].pc = "true"
                       /\ Exists(NewPath(k))
                       /\ ~Exists(all_files[k])
                    \/ /\ task[k].pc = "false"
                       /\ \A data \in GetResults(store, all_files[k]) : ~Matches(data)
        /\ moved_files = Cardinality({k \in 1..Len(all_files) : task[k].pc = "true"})

\* in one batch of two matching files the move of the first failed and the
\* second was moved
C18_Witness ==
    /\ spc = "done"
    /\ move_batch_size = 2
    /\ Len(all_files) >= 2
    /\ task[1].move_failed
    /\ task[2].pc = "true"
    /\ Exists(NewPath(2))
    /\ moved_files = 1

\* C27: after ingest and at every point of a search_and_move, every row
\* satisfies basename(file_path) = file_name, no two rows share a file_path,
\* and a get by path matches at most one row
C27_PathNamesItsRow ==
    /\ \A r \in store : BaseName(r.file_path) = r.file_name
    /\ \A r \in store, q \in store : r.file_path = q.file_path => r = q
    /\ \A p \in AllPaths : Cardinality({r \in store : r.file_path = p}) <= 1

\* the run is over: both rows were rewritten to the path of their file under
\* the target directory
C27_Witness ==
    /\ spc = "done"
    /\ moved_files = 2
    /\ Cardinality(store) = 2
    /\ \A r \in store :
           /\ r.file_path = JoinPath(TargetDir, r.file_name)
           /\ r.last_updated > 1
           /\ Exists(r.file_path)

\* the pool runs every submitted task to its end, and the main process, which
\* nothing cancels, takes its next step whenever it has one
SpecSearchFair ==
    /\ InitSearch
    /\ [][NextSearch]_vars
    /\ WF_vars(\E k \in 1..Len(all_files) : TaskLookup(k))
    /\ WF_vars(\E k \in 1..Len(all_files) : TaskMove(k))
    /\ WF_vars(\E k \in 1..Len(all_files) : TaskUpdate(k))
    /\ WF_vars(SearchSubmit)
    /\ WF_vars(\E k \in 1..Len(all_files) : SearchCollect(k))
    /\ WF_vars(SearchFlush)
    /\ WF_vars(SearchReturn)

\* task k, once submitted, is not handed to a pool again
SubmittedOnce(k) ==
    (task[k].pc # "unsubmitted" /\ task'[k].pc = "queued") => task[k].pc = "queued"

\* at return the task of file k has run to its end in the batch of k, and its
\* result was collected
HandledAtReturn(k) ==
    /\ Finished(k)
    /\ task[k].collected
    /\ BatchOf(k) < flushes

\* C29: find_and_move_images returns, and by then every file of all_files was
\* handled by its one task, which was submitted in one batch only, ran to its
\* end and had its result collected
C29_EveryFileHandledOnce ==
    /\ [][\A k \in 1..Len(all_files) : SubmittedOnce(k)]_vars
    /\ [](spc = "done" => \A k \in 1..Len(all_files) : HandledAtReturn(k))
    /\ <>(spc = "done")

\* the run over three files in batches of two has returned after a full and a
\* partial batch, with a file moved and a file left
C29_Witness ==
    /\ spc = "done"
    /\ Len(all_files) = 3
    /\ move_batch_size = 2
    /\ flushes = 2
    /\ \A k \in 1..Len(all_files) : HandledAtReturn(k)
    /\ \E k \in 1..Len(all_files) : task[k].pc = "true"
    /\ \E k \in 1..Len(all_files) : task[k].pc = "false"

-----------------------------------------------------------------------------
(* Re-ingestion: batch_update_metadata over the walked files when the store *)
(* already holds the rows an earlier ingest of those files left at time 1  *)

\* the rows an ingest that upserts the files in this order leaves
Ingested(order, current_time) ==
    UpsertAll({}, [k \in 1..Len(order) |-> Entry(order[k], Extracted(order[k]))],
              current_time)

InitReingest ==
    /\ fs \in {f \in [AllPaths -> {NoFile} \cup {FileOf(t) : t \in RawTexts}] :
                  \A p \in AllPaths : f[p] # NoFile => p \in Paths /\ f[p] = FileOf(ContentOf(p))}
    /\ \E order \in {Walk, Reverse(Walk)} : store = Ingested(order, 1)
    /\ now = 1
    /\ lastOp = NoOp
    /\ txn = NoTxn
    /\ InitNormIdle
    /\ InitModelIdle
    /\ ipc = "loop"
    /\ file_list = Walk
    /\ fut = [k \in 1..Len(file_list) |-> "queued"]
    /\ results = <<>>
    /\ max_workers \in 1..MaxWorkers
    /\ batch_size \in 1..MaxBatch
    /\ upserts = <<>>
    /\ InitMoveIdle
    /\ InitIndexIdle
    /\ InitHistIdle

SpecReingest == InitReingest /\ [][NextIngest]_vars

\* the files whose extraction succeeded and whose result was collected
Succeeded == {k \in 1..Len(fut) : fut[k] = "taken_ok"}

\* the files whose extraction failed and whose error was collected
FailedExtraction == {k \in 1..Len(fut) : fut[k] = "taken_error"}

\* C12: an extraction failure never aborts ingestion: no upsert raises, a row
\* is written only with the path and metadata of a file whose extraction
\* succeeded, and when ingest has returned every such file's name has a row
\* written by this run, while the row of a name whose files all failed is
\* the one the store held before
C12_ExtractionFailureIsolated ==
    /\ ipc # "raised"
    /\ \A r \in store :
           r.last_updated > 1 =>
               \E j \in Succeeded :
                   /\ r.file_path = file_list[j]
                   /\ <<r.metadata, r.metadata_after_prompt>> = Cached(Extracted(file_list[j]))
    /\ ipc = "done" =>
           /\ \A k \in Succeeded :
                  \E r \in store :
                      r.file_name = BaseName(file_list[k]) /\ r.last_updated > 1
           /\ \A k \in FailedExtraction :
                  (\A j \in Succeeded : BaseName(file_list[j]) # BaseName(file_list[k])) =>
                      \E r \in store :
                          r.file_name = BaseName(file_list[k]) /\ r.last_updated = 1

\* ingest has returned: the extraction of a/x.png failed and its row is the
\* old one, the extraction of a/y.png succeeded and its row was rewritten
C12_Witness ==
    /\ ipc = "done"
    /\ \E k \in FailedExtraction :
           /\ file_list[k] = <<"a", "x.png">>
           /\ \E r \in store : r.file_path = file_list[k] /\ r.last_updated = 1
    /\ \E k \in Succeeded :
           /\ file_list[k] = <<"a", "y.png">>
           /\ \E r \in store : r.file_path = file_list[k] /\ r.last_updated > 1

-----------------------------------------------------------------------------
(* Search and move into a target directory that already holds files, as a  *)
(* run leaves it for the next one                                          *)

InitSearchTarget ==
    /\ fs \in {f \in [AllPaths -> {NoFile} \cup {FileOf(t) : t \in RawTexts}] :
                  \A p \in AllPaths : f[p] # NoFile => f[p] = FileOf(ContentOf(p))}
    /\ \E order \in {Walk, Reverse(Walk)} : store = Ingested(order, 1)
    /\ now = 1
    /\ lastOp = NoOp
    /\ txn = NoTxn
    /\ InitNormIdle
    /\ InitModelIdle
    /\ InitIngestIdle
    /\ InitIndexIdle
    /\ InitHistIdle
    /\ spc = "submit"
    /\ all_files = Walk
    /\ idx = 0
    /\ task = [k \in 1..Len(all_files) |->
                  [pc |-> "unsubmitted", data |-> <<None, None>>, collected |-> FALSE,
                   lookup_failed |-> FALSE, move_failed |-> FALSE]]
    /\ file_moves = <<>>
    /\ moved_files = 0
    /\ terms \in SearchTerms
    /\ search_mode \in {"1", "2"}
    /\ move_batch_size \in 1..MaxBatch
    /\ flushes = 0

SpecSearchTarget == InitSearchTarget /\ [][NextSearch]_vars

\* the files on a filesystem
Files(files) == {p \in DOMAIN files : files[p] # NoFile}

\* C25: search_and_move never destroys a file: no step of a run changes the
\* number of files on the filesystem
C25_MoveKeepsEveryFile ==
    [][Cardinality(Files(fs')) = Cardinality(Files(fs))]_vars

-----------------------------------------------------------------------------
(* Store faults: get_metadata, update_file_path and batch_update_file_paths *)
(* on a filled store, when the connection or the statement may raise       *)
(* sqlite3.Error                                                           *)

\* get_metadata: both except clauses log and re-raise
GetRaises(fault) == fault

\* update_file_path: both except clauses log and return
RewriteRaises(fault) == FALSE

\* batch_update_file_paths: both except clauses log and return
BatchRaises(fault) == FALSE

InitFault ==
    /\ fs = [p \in AllPaths |->
                IF p \in Paths \ {<<"b", "y.png">>} THEN FileOf(ContentOf(p)) ELSE NoFile]
    /\ store = Ingested(Walk, 1)
    /\ now = 1
    /\ lastOp = NoOp
    /\ txn = NoTxn
    /\ InitNormIdle
    /\ InitModelIdle
    /\ InitIngestIdle
    /\ InitMoveIdle
    /\ InitIndexIdle
    /\ InitHistIdle

\* get_metadata(file_path)
GetUnderFault ==
    /\ now < MaxTime
    /\ \E file_path \in Paths, fault \in BOOLEAN :
           lastOp' = [op |-> "get", path |-> file_path, fault |-> fault,
                      raised |-> GetRaises(fault),
                      returned |-> IF fault THEN {} ELSE GetResults(store, file_path)]
    /\ now' = now + 1
    /\ UNCHANGED <<store, fs>>
    /\ UNCHANGED txn
    /\ UNCHANGED normVars
    /\ UNCHANGED modelVars
    /\ UNCHANGED ingVars
    /\ UNCHANGED moveVars
    /\ UNCHANGED indexVars
    /\ UNCHANGED histVars

\* update_file_path(old_path, new_path): a fault leaves the transaction
\* uncommitted
RewriteUnderFault ==
    /\ now < MaxTime
    /\ \E m \in Moves, fault \in BOOLEAN :
           IF fault
           THEN /\ now' = now + 1
                /\ store' = store
                /\ lastOp' = [op |-> "rewrite", old |-> m[1], new |-> m[2], fault |-> TRUE,
                              raised |-> RewriteRaises(TRUE)]
           ELSE update_file_path(m[1], m[2])
    /\ UNCHANGED fs
    /\ UNCHANGED txn
    /\ UNCHANGED normVars
    /\ UNCHANGED modelVars
    /\ UNCHANGED ingVars
    /\ UNCHANGED moveVars
    /\ UNCHANGED indexVars
    /\ UNCHANGED histVars

\* batch_update_file_paths(file_moves): a fault leaves the transaction
\* uncommitted
BatchUnderFault ==
    /\ now < MaxTime
    /\ \E moves \in MoveListsUpTo(Moves, MaxBatch), fault \in BOOLEAN :
           IF fault
           THEN /\ now' = now + 1
                /\ store' = store
                /\ lastOp' = [op |-> "batch", moves |-> moves, fault |-> TRUE,
                              raised |-> BatchRaises(TRUE)]
           ELSE batch_update_file_paths(moves)
    /\ UNCHANGED fs
    /\ UNCHANGED txn
    /\ UNCHANGED normVars
    /\ UNCHANGED modelVars
    /\ UNCHANGED ingVars
    /\ UNCHANGED moveVars
    /\ UNCHANGED indexVars
    /\ UNCHANGED histVars

NextFault == GetUnderFault \/ RewriteUnderFault \/ BatchUnderFault

SpecFault == InitFault /\ [][NextFault]_vars

\* the last operation met a store failure
Faulted == lastOp.op # "none" /\ "fault" \in DOMAIN lastOp /\ lastOp.fault

\* C19: a store failure during get or rewrite_path reaches the caller as an
\* error, and a store failure during rewrite_paths_batch is logged and does not
\* reach the caller
C19_SingleRowFaultsPropagate ==
    Faulted =>
        /\ lastOp.op \in {"get", "rewrite"} => lastOp.raised
        /\ lastOp.op = "batch" => ~lastOp.raised

-----------------------------------------------------------------------------
(* The transaction of bulk_update_or_insert_metadata, statement by          *)
(* statement, next to the operations of other connections.  store is the   *)
(* committed table, which every other connection reads; txn.view is the    *)
(* table as the writing connection sees it.                                *)

\* a connection that commits every statement as it executes
AutoCommitted(committed, view) == view

\* the committed table after a statement executed inside an open
\* transaction: sqlite3 opens the transaction before the first INSERT and
\* nothing is committed before conn.commit()
CommittedAfterExecute(committed, view) == committed

\* the writing connection holds the write lock: it has executed a statement
WriteLocked == txn.state = "open" /\ txn.pos > 0

InitTxn ==
    /\ InitStore

\* with db_connection() as conn: cursor = conn.cursor(); current_time = time.time()
TxnBegin ==
    /\ txn.state # "open"
    /\ now < MaxTime
    /\ \E paths \in ListsUpTo(Paths, MaxBatch) :
           txn' = [state |-> "open",
                   list |-> [k \in 1..Len(paths) |-> Entry(paths[k], Extracted(paths[k]))],
                   pos |-> 0, view |-> store, time |-> now + 1]
    /\ now' = now + 1
    /\ UNCHANGED <<store, fs, lastOp>>
    /\ UNCHANGED normVars
    /\ UNCHANGED modelVars
    /\ UNCHANGED ingVars
    /\ UNCHANGED moveVars
    /\ UNCHANGED indexVars
    /\ UNCHANGED histVars

\* one iteration of the for loop: os.path.getmtime, which raises for a file
\* that is gone (the with block then rolls the transaction back), and
\* cursor.execute of the INSERT
TxnExecute ==
    /\ txn.state = "open"
    /\ txn.pos < Len(txn.list)
    /\ LET entry == txn.list[txn.pos + 1]
           seen == IF txn.pos = 0 THEN store ELSE txn.view
       IN  IF Exists(entry[2])
           THEN LET view == InsertOrUpdateRow(seen, RowOf(entry, txn.time))
                IN  /\ txn' = [txn EXCEPT !.pos = txn.pos + 1, !.view = view]
                    /\ store' = CommittedAfterExecute(store, view)
           ELSE /\ txn' = [txn EXCEPT !.state = "rolled_back"]
                /\ store' = store
    /\ UNCHANGED <<now, fs, lastOp>>
    /\ UNCHANGED normVars
    /\ UNCHANGED modelVars
    /\ UNCHANGED ingVars
    /\ UNCHANGED moveVars
    /\ UNCHANGED indexVars
    /\ UNCHANGED histVars

\* conn.commit()
TxnCommit ==
    /\ txn.state = "open"
    /\ txn.pos = Len(txn.list)
    /\ store' = txn.view
    /\ txn' = [txn EXCEPT !.state = "committed"]
    /\ UNCHANGED <<now, fs, lastOp>>
    /\ UNCHANGED normVars
    /\ UNCHANGED modelVars
    /\ UNCHANGED ingVars
    /\ UNCHANGED moveVars
    /\ UNCHANGED indexVars
    /\ UNCHANGED histVars

\* get_metadata on another connection while the transaction is open, for the
\* path of a record of the batch
TxnGet ==
    /\ txn.state = "open"
    /\ \E file_path \in {txn.list[k][2] : k \in 1..Len(txn.list)} :
           lastOp' = [op |-> "get", path |-> file_path, pos |-> txn.pos,
                      returned |-> GetResults(store, file_path)]
    /\ UNCHANGED <<store, now, fs, txn>>
    /\ UNCHANGED normVars
    /\ UNCHANGED modelVars
    /\ UNCHANGED ingVars
    /\ UNCHANGED moveVars
    /\ UNCHANGED indexVars
    /\ UNCHANGED histVars

\* update_file_path on another connection, for the path of a record of the
\* batch: it waits for the write lock, so its UPDATE runs before the
\* transaction's first statement or after its end
TxnRewrite ==
    /\ txn.state # "none"
    /\ ~WriteLocked
    /\ now < MaxTime
    /\ \E m \in {mv \in Moves : \E k \in 1..Len(txn.list) : txn.list[k][2] = mv[1]} :
           update_file_path(m[1], m[2])
    /\ UNCHANGED <<fs, txn>>
    /\ UNCHANGED normVars
    /\ UNCHANGED modelVars
    /\ UNCHANGED ingVars
    /\ UNCHANGED moveVars
    /\ UNCHANGED indexVars
    /\ UNCHANGED histVars

NextTxn == TxnBegin \/ TxnExecute \/ TxnCommit \/ TxnGet \/ TxnRewrite

SpecTxn == InitTxn /\ [][NextTxn]_vars

\* C14: upsert_batch is atomic per batch: while its transaction is open the
\* table the other operations read changes only by their own writes, the
\* commit makes every record of the batch visible at once, and a call that
\* raises leaves nothing of the batch
C14_UpsertBatchAtomic ==
    [][txn.state = "open" =>
         /\ (store' # store /\ lastOp' = lastOp) =>
                /\ txn'.state = "committed"
                /\ store' = UpsertAll(store, txn.list, txn.time)
         /\ txn'.state = "committed" => store' = UpsertAll(store, txn.list, txn.time)
         /\ txn'.state = "rolled_back" => store' = store]_vars

\* a get on another connection ran between the two statements of a batch and
\* did not find the row the first statement wrote
C14_Witness ==
    /\ txn.state = "open"
    /\ Len(txn.list) = 2
    /\ txn.pos = 1
    /\ \E r \in txn.view : r.file_path = txn.list[1][2]
    /\ lastOp.op = "get"
    /\ lastOp.pos = 1
    /\ lastOp.path = txn.list[1][2]
    /\ lastOp.returned = {<<None, None>>}

\* the second statement of a batch raised after the first had executed, and
\* no row of the batch is in the table
C14_WitnessRolledBack ==
    /\ txn.state = "rolled_back"
    /\ txn.pos = 1
    /\ \A r \in store : r.file_path # txn.list[1][2]

-----------------------------------------------------------------------------
(* Model extraction: extract_model_from_metadata on a cached secondary     *)
(* metadata, and json.loads for objects, arrays, strings without escapes,  *)
(* non-negative integers and null                                          *)

LabelUpper ==
    <<"M","o","d","e","l",":">>

LabelLower ==
    <<"m","o","d","e","l",":">>

CivitaiMarker ==
    <<"C","i","v","i","t","a","i"," ","r","e","s","o","u","r","c","e","s",
      ":">>

ModelNameKey ==
    <<"m","o","d","e","l","N","a","m","e">>

Digits == {"0", "1", "2", "3", "4", "5", "6", "7", "8", "9"}

\* json.JSONDecodeError
JsonError == [ok |-> FALSE, next |-> 0, kind |-> "error", text |-> <<>>, elems |-> <<>>]

\* a decoded value and the index after it: text is the content of a string or
\* a number, elems the elements of an array or the (key, value) members of an
\* object
JsonValue(kind, text, elems, next) ==
    [ok |-> TRUE, next |-> next, kind |-> kind, text |-> text, elems |-> elems]

RECURSIVE SkipWhitespace(_, _)
SkipWhitespace(s, i) ==
    IF i <= Len(s) /\ s[i] \in Whitespace THEN SkipWhitespace(s, i + 1) ELSE i

\* s[i] is the opening quote
ParseString(s, i) ==
    LET closing == {j \in (i + 1)..Len(s) : s[j] = "\""}
    IN  IF closing = {} THEN JsonError
        ELSE LET j == CHOOSE c \in closing : \A d \in closing : c <= d
             IN  JsonValue("string", SubSeq(s, i + 1, j - 1), <<>>, j + 1)

RECURSIVE DigitsEnd(_, _)
DigitsEnd(s, i) == IF i <= Len(s) /\ s[i] \in Digits THEN DigitsEnd(s, i + 1) ELSE i

\* s[i] is a digit: 0 or a digit sequence that does not start with 0
ParseNumber(s, i) ==
    LET e == IF s[i] = "0" THEN i + 1 ELSE DigitsEnd(s, i)
    IN  JsonValue("number", SubSeq(s, i, e - 1), <<>>, e)

RECURSIVE ParseValue(_, _)
RECURSIVE ParseElements(_, _, _)
RECURSIVE ParseMembers(_, _, _)

\* the value that starts at i, which is not whitespace
ParseValue(s, i) ==
    IF i > Len(s) THEN JsonError
    ELSE IF s[i] = "\"" THEN ParseString(s, i)
    ELSE IF s[i] \in Digits THEN ParseNumber(s, i)
    ELSE IF MatchAt(s, <<"n", "u", "l", "l">>, i) THEN JsonValue("null", <<>>, <<>>, i + 4)
    ELSE IF s[i] = "["
    THEN LET j == SkipWhitespace(s, i + 1)
         IN  IF j <= Len(s) /\ s[j] = "]" THEN JsonValue("array", <<>>, <<>>, j + 1)
             ELSE ParseElements(s, j, <<>>)
    ELSE IF s[i] = "{"
    THEN LET j == SkipWhitespace(s, i + 1)
         IN  IF j <= Len(s) /\ s[j] = "}" THEN JsonValue("object", <<>>, <<>>, j + 1)
             ELSE ParseMembers(s, j, <<>>)
    ELSE JsonError

\* the elements of an array from i on, after those in acc
ParseElements(s, i, acc) ==
    LET v == ParseValue(s, i)
        j == SkipWhitespace(s, v.next)
    IN  IF ~v.ok \/ j > Len(s) THEN JsonError
        ELSE IF s[j] = "]" THEN JsonValue("array", <<>>, Append(acc, v), j + 1)
        ELSE IF s[j] = "," THEN ParseElements(s, SkipWhitespace(s, j + 1), Append(acc, v))
        ELSE JsonError

\* the members of an object from i on, after those in acc
ParseMembers(s, i, acc) ==
    IF i > Len(s) \/ s[i] # "\"" THEN JsonError
    ELSE LET key == ParseString(s, i)
             colon == SkipWhitespace(s, key.next)
         IN  IF ~key.ok \/ colon > Len(s) \/ s[colon] # ":" THEN JsonError
             ELSE LET v == ParseValue(s, SkipWhitespace(s, colon + 1))
                      j == SkipWhitespace(s, v.next)
                      members == Append(acc, [key |-> key.text, value |-> v])
                  IN  IF ~v.ok \/ j > Len(s) THEN JsonError
                      ELSE IF s[j] = "}" THEN JsonValue("object", <<>>, members, j + 1)
                      ELSE IF s[j] = ","
                      THEN ParseMembers(s, SkipWhitespace(s, j + 1), members)
                      ELSE JsonError

\* json.loads(s): one value, with nothing but whitespace around it
json_loads(s) ==
    LET v == ParseValue(s, SkipWhitespace(s, 1))
    IN  IF v.ok /\ SkipWhitespace(s, v.next) > Len(s) THEN v ELSE JsonError

\* the extraction returned a model, or None
Returned(value) == [value |-> value, raised |-> FALSE]

\* an exception left extract_model_from_metadata
Raised == [value |-> None, raised |-> TRUE]

\* the first loop: the text after the first colon of the first comma-delimited
\* segment that holds a label, or None
ModelFromLabel(text) ==
    LET segments == SplitAll(text, <<",">>)
        labelled == {k \in 1..Len(segments) :
                        \/ Contains(segments[k], LabelUpper)
                        \/ Contains(segments[k], LabelLower)}
    IN  IF labelled = {} THEN None
        ELSE LET first == CHOOSE k \in labelled : \A j \in labelled : k <= j
             IN  Strip(SplitOnce(segments[first], <<":">>)[2])

\* 'modelName' in item: a key of a dict, a substring of a str, an element of a
\* list; TypeError for a number and for None
HasModelName(item) ==
    CASE item.kind = "object" ->
             IF \E k \in 1..Len(item.elems) : item.elems[k].key = ModelNameKey
             THEN "yes" ELSE "no"
      [] item.kind = "string" ->
             IF Contains(item.text, ModelNameKey) THEN "yes" ELSE "no"
      [] item.kind = "array" ->
             IF \E k \in 1..Len(item.elems) :
                    item.elems[k].kind = "string" /\ item.elems[k].text = ModelNameKey
             THEN "yes" ELSE "no"
      [] OTHER -> "raise"

\* item['modelName'] of a dict: the value of the last member with that key
ModelNameOf(item) ==
    LET named == {k \in 1..Len(item.elems) : item.elems[k].key = ModelNameKey}
    IN  item.elems[CHOOSE k \in named : \A j \in named : j <= k].value

RECURSIVE ModelOfFirstItem(_, _)
\* the loop that looks at json_data[0] only
ModelOfFirstItem(items, found) ==
    IF Len(items) = 0 THEN Returned(found)
    ELSE LET item == Head(items)
         IN  IF HasModelName(item) = "raise" THEN Raised
             ELSE IF HasModelName(item) = "no" THEN Returned(found)
             ELSE IF item.kind # "object" \/ ModelNameOf(item).kind # "string" THEN Raised
             ELSE Returned(Strip(ModelNameOf(item).text))

RECURSIVE ModelOfItems(_, _)
\* for item in json_data: if 'modelName' in item: model =
\* item['modelName'].strip(); if model: break
ModelOfItems(items, found) ==
    IF Len(items) = 0 THEN Returned(found)
    ELSE LET item == Head(items)
         IN  IF HasModelName(item) = "raise" THEN Raised
             ELSE IF HasModelName(item) = "no" THEN ModelOfItems(Tail(items), found)
             ELSE IF item.kind # "object" \/ ModelNameOf(item).kind # "string" THEN Raised
             ELSE IF Strip(ModelNameOf(item).text) # <<>>
             THEN Returned(Strip(ModelNameOf(item).text))
             ELSE ModelOfItems(Tail(items), Strip(ModelNameOf(item).text))

\* what the for loop iterates over: the elements of a list, the keys of a
\* dict, the characters of a str
ItemsOf(json_data) ==
    CASE json_data.kind = "array" -> json_data.elems
      [] json_data.kind = "object" ->
             [k \in 1..Len(json_data.elems) |->
                 JsonValue("string", json_data.elems[k].key, <<>>, 0)]
      [] OTHER ->
             [k \in 1..Len(json_data.text) |->
                 JsonValue("string", <<json_data.text[k]>>, <<>>, 0)]

\* json_string: the text after the marker, trimmed, up to the first ']', and ']'
CivitaiJson(text) ==
    LET start == Find(text, CivitaiMarker) + Len(CivitaiMarker)
        json_string == Strip(SubSeq(text, start, Len(text)))
    IN  SplitOnce(json_string, <<"]">>)[1] \o <<"]">>

extract_model_from_metadata(text) ==
    IF text = None THEN Raised
    ELSE IF ModelFromLabel(text) # None THEN Returned(ModelFromLabel(text))
    ELSE IF ~Contains(text, CivitaiMarker) THEN Returned(None)
    ELSE LET json_data == json_loads(CivitaiJson(text))
         IN  IF ~json_data.ok THEN Returned(None)
             ELSE IF json_data.kind \in {"number", "null"} THEN Raised
             ELSE ModelOfItems(ItemsOf(json_data), None)

\* get_model_for_file: the model handed to the aggregation; an exception of
\* the extraction is logged and the file has no model
ModelForFile(outcome) == Returned(IF outcome.raised THEN None ELSE outcome.value)

-----------------------------------------------------------------------------
(* Model extraction harness: secondary metadata made of a prefix of        *)
(* comma-delimited segments and, or not, the marker and a payload of up to *)
(* MaxItems entries                                                        *)

ModelPrefixes ==
    {<<>>,
     <<"s","t","e","p","s",":"," ","2","0",","," ">>,
     <<"M","o","d","e","l",":"," ","f","o","o",","," ","S","t","e","p","s",
       ":"," ","2","0",","," ">>,
     <<"a",":"," ","b"," ","m","o","d","e","l",":"," ","c"," ",","," ">>,
     <<"M","o","d","e","l",":",","," ">>}

ItemTexts ==
    {<<"{","\"","m","o","d","e","l","N","a","m","e","\"",":","\"","b","a",
       "r","\"","}">>,
     <<"{"," ","\"","m","o","d","e","l","N","a","m","e","\""," ",":"," ",
       "\""," ","b","a","z"," ","\""," ","}">>,
     <<"{","\"","m","o","d","e","l","N","a","m","e","\"",":","\""," ","\"",
       "}">>,
     <<"{","\"","a","\"",":","\"","b","\"","}">>,
     <<"{","\"","m","o","d","e","l","N","a","m","e","\"",":","1","}">>,
     <<"1">>,
     <<"\"", "b", "a", "r", "\"">>,
     <<"{">>}

ItemLists == UNION {[1..n -> ItemTexts] : n \in 0..MaxItems}

Payloads ==
    {open \o Join(items, <<",">>) \o close :
        open \in {<<"[">>, <<>>},
        items \in ItemLists,
        close \in {<<"]">>, <<>>, <<"]", ",", " ", "x">>}}

\* '[{"modelName":"bar"}]'
PayloadBar ==
    <<"[","{","\"","m","o","d","e","l","N","a","m","e","\"",":","\"","b","a",
      "r","\"","}","]">>

\* every prefix alone and before the marker, and every payload after the
\* marker behind a prefix without a label
ModelTexts ==
    {prefix \o rest :
        prefix \in ModelPrefixes,
        rest \in {<<>>, CivitaiMarker \o <<" ">> \o PayloadBar}}
    \cup
    {prefix \o CivitaiMarker \o <<" ">> \o payload :
        prefix \in {p \in ModelPrefixes : ModelFromLabel(p) = None},
        payload \in Payloads}

InitModel ==
    /\ InitStoreIdle
    /\ InitNormIdle
    /\ InitIndexIdle
    /\ InitHistIdle
    /\ metadata_after_prompt \in ModelTexts
    /\ model = Returned(None)
    /\ mpc = "start"

\* model = extract_model_from_metadata(metadata_after_prompt)
ExtractModel ==
    /\ mpc = "start"
    /\ model' = extract_model_from_metadata(metadata_after_prompt)
    /\ mpc' = "extracted"
    /\ UNCHANGED metadata_after_prompt
    /\ UNCHANGED storeVars
    /\ UNCHANGED normVars
    /\ UNCHANGED ingVars
    /\ UNCHANGED moveVars
    /\ UNCHANGED indexVars
    /\ UNCHANGED histVars

\* get_model_for_file returns (file_path, model), or (file_path, None) from
\* its except clauses
ReturnModel ==
    /\ mpc = "extracted"
    /\ model' = ModelForFile(model)
    /\ mpc' = "returned"
    /\ UNCHANGED metadata_after_prompt
    /\ UNCHANGED storeVars
    /\ UNCHANGED normVars
    /\ UNCHANGED ingVars
    /\ UNCHANGED moveVars
    /\ UNCHANGED indexVars
    /\ UNCHANGED histVars

NextModel == ExtractModel \/ ReturnModel

SpecModel == InitModel /\ [][NextModel]_vars

\* the comma-delimited segments of the text that hold 'Model:' or 'model:'
LabelledSegments(text) ==
    {k \in 1..Len(SplitAll(text, <<",">>)) :
        \/ Contains(SplitAll(text, <<",">>)[k], LabelUpper)
        \/ Contains(SplitAll(text, <<",">>)[k], LabelLower)}

\* the trimmed text after the first colon of the first such segment
FirstLabelValue(text) ==
    LET first == CHOOSE k \in LabelledSegments(text) :
                     \A j \in LabelledSegments(text) : k <= j
        segment == SplitAll(text, <<",">>)[first]
    IN  Strip(SubSeq(segment, Find(segment, <<":">>) + 1, Len(segment)))

\* the text has no label and has the marker
CivitaiOnly(text) ==
    /\ text # None
    /\ LabelledSegments(text) = {}
    /\ Contains(text, CivitaiMarker)

\* entry k of the array is an object with a modelName that is a string
NamedEntry(data, k) ==
    /\ data.elems[k].kind = "object"
    /\ HasModelName(data.elems[k]) = "yes"
    /\ ModelNameOf(data.elems[k]).kind = "string"

\* the trimmed modelName of such an entry
EntryName(data, k) == Strip(ModelNameOf(data.elems[k]).text)

\* the bracketed content is a JSON array of objects whose modelName fields,
\* where they have one, are strings
ArrayOfObjects(data) ==
    /\ data.ok
    /\ data.kind = "array"
    /\ \A k \in 1..Len(data.elems) :
           /\ data.elems[k].kind = "object"
           /\ HasModelName(data.elems[k]) = "yes" => NamedEntry(data, k)

C16_WitnessLabel ==
    /\ mpc = "extracted"
    /\ model = Returned(<<"b", " ", "m", "o", "d", "e", "l", ":", " ", "c">>)
    /\ Contains(metadata_after_prompt, CivitaiMarker)

\* C17: with no label and, after the marker, a payload that is not a JSON
\* array, or an array in which no entry is an object with a string modelName,
\* the extraction returns no model and raises no exception, and the file
\* reaches the aggregation without a model
C17_MalformedPayloadGivesNoModel ==
    LET data == json_loads(CivitaiJson(metadata_after_prompt))
    IN  (/\ mpc \in {"extracted", "returned"}
         /\ CivitaiOnly(metadata_after_prompt)
         /\ \/ ~data.ok
            \/ data.kind # "array"
            \/ \A k \in 1..Len(data.elems) : ~NamedEntry(data, k)) =>
            model = Returned(None)

-----------------------------------------------------------------------------
(* Model aggregation: parallel_list_models_in_directory over the files a   *)
(* walk finds, on a store that an ingest of those files has filled         *)

\* "a: 1\nNegative prompt: Steps: 20, Model: foo":
\* its secondary metadata holds the label 'Model: foo'
IndexRawLabel ==
    <<"a",":"," ","1","\n","N","e","g","a","t","i","v","e"," ","p","r","o",
      "m","p","t",":"," ","S","t","e","p","s",":"," ","2","0",","," ","M",
      "o","d","e","l",":"," ","f","o","o">>

\* "a: 1\nNegative prompt: Steps: 20, Civitai resources: [{"modelName":"foo"}]":
\* no label, and a Civitai entry named foo
IndexRawCivitai ==
    <<"a",":"," ","1","\n","N","e","g","a","t","i","v","e"," ","p","r","o",
      "m","p","t",":"," ","S","t","e","p","s",":"," ","2","0",","," ","C",
      "i","v","i","t","a","i"," ","r","e","s","o","u","r","c","e","s",":",
      " ","[","{","\"","m","o","d","e","l","N","a","m","e","\"",":","\"",
      "f","o","o","\"","}","]">>

\* "a: 1\nNegative prompt: Steps: 20, Model: Foo":
\* the label 'Model: Foo'
IndexRawCased ==
    <<"a",":"," ","1","\n","N","e","g","a","t","i","v","e"," ","p","r","o",
      "m","p","t",":"," ","S","t","e","p","s",":"," ","2","0",","," ","M",
      "o","d","e","l",":"," ","F","o","o">>

\* "a: 1\nNegative prompt: Steps: 20, Model:":
\* a label with nothing after it
IndexRawBlank ==
    <<"a",":"," ","1","\n","N","e","g","a","t","i","v","e"," ","p","r","o",
      "m","p","t",":"," ","S","t","e","p","s",":"," ","2","0",","," ","M",
      "o","d","e","l",":">>

\* "a: 1\nNegative prompt: Steps: 20, Civitai resources: [1]":
\* a Civitai entry that is not an object
IndexRawBadItem ==
    <<"a",":"," ","1","\n","N","e","g","a","t","i","v","e"," ","p","r","o",
      "m","p","t",":"," ","S","t","e","p","s",":"," ","2","0",","," ","C",
      "i","v","i","t","a","i"," ","r","e","s","o","u","r","c","e","s",":",
      " ","[","1","]">>

\* the raw metadata of the files of the aggregation harness; RawFooBar has no
\* label and no marker
IndexRawTexts ==
    {IndexRawLabel, IndexRawCivitai, IndexRawCased, IndexRawBlank, IndexRawBadItem,
     RawFooBar}

\* the files of the aggregation harness: a/x.png and b/x.png share a base
\* name, so only the one ingested last has a row
InitIndex ==
    /\ fs \in {f \in [AllPaths -> {NoFile} \cup {FileOf(t) : t \in IndexRawTexts}] :
                  \A p \in AllPaths : f[p] # NoFile => p \in Paths \ {<<"b", "y.png">>}}
    /\ \E order \in {Walk, Reverse(Walk)} : store = Ingested(order, 1)
    /\ now = 1
    /\ lastOp = NoOp
    /\ txn = NoTxn
    /\ InitNormIdle
    /\ InitModelIdle
    /\ InitIngestIdle
    /\ InitMoveIdle
    /\ InitHistIdle
    /\ xpc = "loop"
    /\ file_paths = Walk
    /\ futures = [k \in 1..Len(file_paths) |-> [pc |-> "queued", model |-> None]]
    /\ models = <<>>
    /\ index_workers \in 1..MaxWorkers

\* a pool thread takes the oldest queued future
IndexStart(k) ==
    /\ xpc = "loop"
    /\ futures[k].pc = "queued"
    /\ \A j \in 1..Len(futures) : futures[j].pc = "queued" => k <= j
    /\ Cardinality({j \in 1..Len(futures) : futures[j].pc = "running"}) < index_workers
    /\ futures' = [futures EXCEPT ![k].pc = "running"]
    /\ UNCHANGED <<xpc, file_paths, models, index_workers>>
    /\ UNCHANGED storeVars
    /\ UNCHANGED normVars
    /\ UNCHANGED modelVars
    /\ UNCHANGED ingVars
    /\ UNCHANGED moveVars
    /\ UNCHANGED histVars

\* SELECT metadata_after_prompt ... WHERE file_path = ?; fetchone(): what
\* get_model_for_file may return as the model of file_path
ModelsFor(rows, file_path) ==
    IF \A r \in rows : r.file_path # file_path THEN {None}
    ELSE {ModelForFile(extract_model_from_metadata(r.metadata_after_prompt)).value :
             r \in {q \in rows : q.file_path = file_path}}

\* get_model_for_file(file_path) returns (file_path, model)
IndexLookup(k) ==
    /\ futures[k].pc = "running"
    /\ \E m \in ModelsFor(store, file_paths[k]) :
           futures' = [futures EXCEPT ![k].pc = "done", ![k].model = m]
    /\ UNCHANGED <<xpc, file_paths, models, index_workers>>
    /\ UNCHANGED storeVars
    /\ UNCHANGED normVars
    /\ UNCHANGED modelVars
    /\ UNCHANGED ingVars
    /\ UNCHANGED moveVars
    /\ UNCHANGED histVars

\* models[model] = [file_path] whether or not the model has a list
GroupedAnew(index, m, file_path) ==
    [n \in DOMAIN index \cup {m} |-> IF n = m THEN <<file_path>> ELSE index[n]]

\* if model in models: models[model].append(file_path)
\* else: models[model] = [file_path]
Grouped(index, m, file_path) ==
    [n \in DOMAIN index \cup {m} |->
        IF n # m THEN index[n]
        ELSE IF m \in DOMAIN index THEN Append(index[m], file_path)
        ELSE <<file_path>>]

\* one iteration of the as_completed loop: future k is yielded
IndexCollect(k) ==
    /\ xpc = "loop"
    /\ futures[k].pc = "done"
    /\ futures' = [futures EXCEPT ![k].pc = "taken"]
    /\ models' = IF Truthy(futures[k].model)
                 THEN Grouped(models, futures[k].model, file_paths[k])
                 ELSE models
    /\ UNCHANGED <<xpc, file_paths, index_workers>>
    /\ UNCHANGED storeVars
    /\ UNCHANGED normVars
    /\ UNCHANGED modelVars
    /\ UNCHANGED ingVars
    /\ UNCHANGED moveVars
    /\ UNCHANGED histVars

\* the loop is over: return models
IndexReturn ==
    /\ xpc = "loop"
    /\ \A k \in 1..Len(futures) : futures[k].pc = "taken"
    /\ xpc' = "done"
    /\ UNCHANGED <<file_paths, futures, models, index_workers>>
    /\ UNCHANGED storeVars
    /\ UNCHANGED normVars
    /\ UNCHANGED modelVars
    /\ UNCHANGED ingVars
    /\ UNCHANGED moveVars
    /\ UNCHANGED histVars

NextIndex ==
    \/ \E k \in 1..Len(futures) : IndexStart(k)
    \/ \E k \in 1..Len(futures) : IndexLookup(k)
    \/ \E k \in 1..Len(futures) : IndexCollect(k)
    \/ IndexReturn

SpecIndex == InitIndex /\ [][NextIndex]_vars

\* the model that the cached secondary metadata of the row under file_path
\* yields: None when no row is under the path, when the extraction finds no
\* model and when it raises
Yields(file_path) ==
    IF \A r \in store : r.file_path # file_path THEN None
    ELSE LET r == CHOOSE q \in store : q.file_path = file_path
             outcome == extract_model_from_metadata(r.metadata_after_prompt)
         IN  IF outcome.raised THEN None ELSE outcome.value

\* the places at which file_path stands in the list of model m
PlacesIn(m, file_path) == {j \in 1..Len(models[m]) : models[m][j] = file_path}

\* C23: when build_model_index has returned, every walked file whose cached
\* secondary metadata yields a non-empty model m stands exactly once in the
\* list of m and in no other list, a file with no row or no model stands in no
\* list (an empty model counts as no model), and no list is empty: the
\* mapping, lists taken as sets, is a function of the store and the walked
\* files, whatever the pool width and the completion order
C23_GroupsByExactModel ==
    xpc = "done" =>
        /\ \A m \in DOMAIN models : Len(models[m]) > 0 /\ m \notin {None, <<>>}
        /\ \A k \in 1..Len(file_paths), m \in DOMAIN models :
               Cardinality(PlacesIn(m, file_paths[k])) =
                   IF Yields(file_paths[k]) = m THEN 1 ELSE 0
        /\ \A k \in 1..Len(file_paths) :
               Yields(file_paths[k]) \notin {None, <<>>} =>
                   Yields(file_paths[k]) \in DOMAIN models

\* two workers: the files a/y.png and b/x.png yield foo, one by its label and
\* one by its Civitai entry, and stand in the list of foo in the reverse of the
\* walk order; a/x.png has no row and stands in no list
C23_Witness ==
    /\ xpc = "done"
    /\ index_workers = 2
    /\ file_paths = <<<<"a", "x.png">>, <<"a", "y.png">>, <<"b", "x.png">>>>
    /\ fs[<<"a", "y.png">>].raw = IndexRawLabel
    /\ fs[<<"b", "x.png">>].raw = IndexRawCivitai
    /\ DOMAIN models = {<<"f", "o", "o">>}
    /\ models[<<"f", "o", "o">>] = <<<<"b", "x.png">>, <<"a", "y.png">>>>

-----------------------------------------------------------------------------
(* PathHistory: add and clear on a history that starts empty               *)

\* the directory paths given to add
HistoryPaths == {"/a", "/b", "/t", "/u"}

\* if path in self.history: self.history.remove(path)
Removed(list, path) ==
    IF \E j \in 1..Len(list) : list[j] = path
    THEN LET first == CHOOSE j \in 1..Len(list) :
                          list[j] = path /\ \A i \in 1..(j - 1) : list[i] # path
         IN  SubSeq(list, 1, first - 1) \o SubSeq(list, first + 1, Len(list))
    ELSE list

\* self.history.insert(0, path)
Inserted(list, path) == <<path>> \o list

\* the overflow handled by pop(0)
PoppedFirst(list, most) == IF Len(list) > most THEN Tail(list) ELSE list

\* if len(self.history) > self.max_history: self.history.pop()
Popped(list, most) == IF Len(list) > most THEN SubSeq(list, 1, Len(list) - 1) ELSE list

\* PathHistory(max_history): CommandLineInterface keeps the default, 10
InitHistory ==
    /\ InitStoreIdle
    /\ InitNormIdle
    /\ InitModelIdle
    /\ InitIndexIdle
    /\ history = <<>>
    /\ max_history \in 1..MaxHistory
    /\ added = <<>>

\* PathHistory.add(path)
HistoryAdd ==
    /\ Len(added) < MaxAdds
    /\ \E path \in HistoryPaths :
           /\ history' = Popped(Inserted(Removed(history, path), path), max_history)
           /\ added' = Append(added, path)
    /\ UNCHANGED max_history
    /\ UNCHANGED storeVars
    /\ UNCHANGED normVars
    /\ UNCHANGED modelVars
    /\ UNCHANGED ingVars
    /\ UNCHANGED moveVars
    /\ UNCHANGED indexVars

\* PathHistory.clear()
HistoryClear ==
    /\ Len(added) > 0
    /\ history' = <<>>
    /\ added' = <<>>
    /\ UNCHANGED max_history
    /\ UNCHANGED storeVars
    /\ UNCHANGED normVars
    /\ UNCHANGED modelVars
    /\ UNCHANGED ingVars
    /\ UNCHANGED moveVars
    /\ UNCHANGED indexVars

NextHistory == HistoryAdd \/ HistoryClear

SpecHistory == InitHistory /\ [][NextHistory]_vars

RECURSIVE ByRecency(_)
\* the distinct paths of a log of adds, the most recently added first
ByRecency(log) ==
    IF Len(log) = 0 THEN <<>>
    ELSE LET last == log[Len(log)]
             Other(path) == path # last
         IN  <<last>> \o ByRecency(SelectSeq(log, Other))

\* C24: PathHistory is a bounded LRU list: it holds no path twice and at most
\* max_history paths, the most recently added path is first, and it is the
\* max_history most recently added distinct paths in that order, so that the
\* entry an overflow drops is the least recently added one
C24_BoundedLru ==
    /\ \A i \in 1..Len(history), j \in 1..Len(history) : history[i] = history[j] => i = j
    /\ Len(history) <= max_history
    /\ Len(added) > 0 => Len(history) > 0 /\ history[1] = added[Len(added)]
    /\ LET recent == ByRecency(added)
       IN  history = SubSeq(recent, 1, IF Len(recent) < max_history THEN Len(recent)
                                       ELSE max_history)

\* a history of two: the third add dropped the first path, and adding the
\* first path again dropped the second and left the third behind it
C24_Witness ==
    /\ max_history = 2
    /\ Len(added) = 4
    /\ added[1] = added[4]
    /\ Cardinality({added[1], added[2], added[3]}) = 3
    /\ history = <<added[4], added[3]>>

-----------------------------------------------------------------------------
(* Normalizer harness: every raw text up to MaxLen characters, and None *)

NormChars == {"a", "B", ":", " ", "\n"}

RawInputs == {None} \cup UNION {[1..n -> NormChars] : n \in 0..MaxLen}

InitNorm ==
    /\ InitStoreIdle
    /\ InitModelIdle
    /\ InitIndexIdle
    /\ InitHistIdle
    /\ raw \in RawInputs
    /\ once = None
    /\ twice = None
    /\ npc = "start"

NormalizeOnce ==
    /\ npc = "start"
    /\ once' = normalize_metadata(raw)
    /\ npc' = "once"
    /\ UNCHANGED <<raw, twice>>
    /\ UNCHANGED storeVars
    /\ UNCHANGED modelVars
    /\ UNCHANGED ingVars
    /\ UNCHANGED moveVars
    /\ UNCHANGED indexVars
    /\ UNCHANGED histVars

NormalizeTwice ==
    /\ npc = "once"
    /\ twice' = normalize_metadata(once)
    /\ npc' = "twice"
    /\ UNCHANGED <<raw, once>>
    /\ UNCHANGED storeVars
    /\ UNCHANGED modelVars
    /\ UNCHANGED ingVars
    /\ UNCHANGED moveVars
    /\ UNCHANGED indexVars
    /\ UNCHANGED histVars

NextNorm == NormalizeOnce \/ NormalizeTwice

SpecNorm == InitNorm /\ [][NextNorm]_vars

\* C8: the normalizer is idempotent: normalizing its own output changes nothing
C8_NormalizerIdempotent == npc = "twice" => twice = once

\* a text that is not in canonical form was normalized to a non-empty text,
\* which was normalized again
C8_Witness ==
    /\ npc = "twice"
    /\ raw # None
    /\ once # raw
    /\ once # <<>>

=============================================================================
